---- MODULE Spec2Model ----
(***************************************************************************)
(* Verification model of voice_mcp: the converse turn orchestrator         *)
(* (tools/conversation.py), its device lock, its startup initialization    *)
(* and the silence-detecting capture loop record_audio.                    *)
(*                                                                         *)
(* Time is counted in ticks; one 100 ms chunk lasts TicksPerChunk ticks.   *)
(* Sample counts are counted in chunks (chunk_size samples each).          *)
(***************************************************************************)
EXTENDS Integers, Sequences, FiniteSets, TLC

VARIABLES
    pc,                    \* per call: the await at which the coroutine is suspended
    wait_for_response,     \* per call: argument of converse
    transport,             \* per call: argument / local variable of converse
    listen_duration,       \* per call: argument of converse, in ticks
    result,                \* per call: the value converse returned
    raised,                \* per call: TRUE iff converse raised to its caller
    phases,                \* per call: the steps it has run (completed or failed), in order
    timings,               \* per call: keys of the timings dict
    audio_operation_lock,  \* the asyncio lock guarding the audio device
    startup_initialized,   \* voice_mcp.config._startup_initialized
    service_processes,     \* voice_mcp.config.service_processes (its keys)
    startup_runs,          \* how often the startup body ran / how many Popen calls were made
    auto_start_kokoro,     \* env VOICE_MCP_AUTO_START_KOKORO
    audio_data,            \* per call: length of the array record_audio returned (-1: none yet)
    tts_success,           \* per call: what text_to_speech reported ("none": not yet)
    heard,                 \* per call: what the recognition step produced inside speech_to_text
    cap,                   \* the capture session of a record_audio call observed chunk by chunk
    user_settings,         \* settings_manager._settings: the VoiceSettings record in memory
    environ,               \* os.environ: the variables apply_to_environment writes
    config,                \* the values imported from voice_mcp.config when the module loads
    resolution,            \* a request to get_tts_config / get_stt_config and what it answered
    probe,                 \* a call of is_provider_available: the requests it has issued so far
    synth,                 \* a call of GeminiTTSProvider.generate_speech and what it produced
    wav,                   \* a descriptor and a payload handed to the header synthesizer
    persisted,             \* the content of ~/.voice-mcp/user_settings.json
    reply,                 \* the last settings tool called and what it returned
    writable,              \* TRUE iff ~/.voice-mcp/user_settings.json can be written
    cue_failed,            \* per call: the cues whose emission failed inside play_audio_feedback
    stt_call               \* a call of speech_to_text: its position and its temporary files

vars == << pc, wait_for_response, transport, listen_duration, result, raised,
           phases, timings, audio_operation_lock, startup_initialized,
           service_processes, startup_runs, auto_start_kokoro, audio_data,
           tts_success, heard, cap, user_settings, environ, config, resolution,
           probe, synth, wav, persisted, reply, writable, cue_failed, stt_call >>

-----------------------------------------------------------------------------
(* Bounds of the model *)

NumTurns == 2          \* concurrent converse calls
TicksPerChunk == 2     \* clock resolution: ticks per 100 ms chunk
MaxListenChunks == 1   \* longest listen_duration of a turn under Spec, in chunks
MaxCaptureChunks == 100\* longest duration given to record_audio under SpecCapture, in chunks

Turns == 1..NumTurns

(* Program constants *)
silence_threshold == 100   \* RMS level below which a chunk counts as silence
silence_duration == 25     \* 2.5 s, in chunk intervals of 100 ms

NoTime == -1

Transports == {"auto", "local", "livekit", "other"}
Loudness == {0, silence_threshold - 1, silence_threshold, silence_threshold + 1}

-----------------------------------------------------------------------------
(* asyncio.Lock: acquire takes the lock at once only when it is free and    *)
(* nobody waits; release frees it and completes the first waiter's future;  *)
(* the woken waiter takes the lock when it resumes.                         *)

LockInit == [locked |-> FALSE, waiters |-> << >>, woken |-> {}]

\* acquire that looks at the lock only: a caller takes a lock that was just
\* released although the woken waiter has not resumed yet
LockFreeBarging(l) == ~l.locked

LockFree(l) == ~l.locked /\ l.waiters = << >>

LockTake(l) == [l EXCEPT !.locked = TRUE]

LockEnqueue(l, t) == [l EXCEPT !.waiters = Append(@, t)]

LockRelease(l) ==
    [l EXCEPT !.locked = FALSE,
              !.woken = IF l.waiters # << >> THEN @ \cup {Head(l.waiters)} ELSE @]

LockResume(l, t) ==
    [locked |-> TRUE,
     waiters |-> SelectSeq(l.waiters, LAMBDA w : w # t),
     woken |-> l.woken \ {t}]

-----------------------------------------------------------------------------
(* record_audio: the capture session *)

NoSession ==
    [state |-> "off", duration |-> 0, total_recorded |-> 0, silence_start |-> NoTime,
     last_loud |-> 0, timer_chunk |-> 0, overflowed |-> FALSE, buffer |-> 0,
     stop |-> "none"]

\* record_audio(duration) entered: nothing recorded, no silence timer
NewSession(d) == [NoSession EXCEPT !.state = "opening", !.duration = d]

\* the loop condition written with <= : one more chunk at the ceiling
LoopConditionInclusive(s) == s.total_recorded * TicksPerChunk <= s.duration

\* the loop condition  total_recorded < duration * SAMPLE_RATE
LoopCondition(s) == s.total_recorded * TicksPerChunk < s.duration

\* an error of the device keeps the chunks appended before it: record_audio
\* returns them
CaptureFailedKeepsFrames(s) ==
    [s EXCEPT !.state = "done", !.buffer = s.total_recorded, !.stop = "error"]

\* the except branch: whatever was recorded, an empty array is returned
CaptureFailed(s) == [s EXCEPT !.state = "done", !.buffer = 0, !.stop = "error"]

\* the normal return: the concatenation of every chunk appended
CaptureReturn(s, why) ==
    [s EXCEPT !.state = "done", !.buffer = s.total_recorded, !.stop = why]

\* entering  with sd.InputStream(...)  and testing the loop condition once
OpenStreamOp(s, opened) ==
    IF ~opened THEN CaptureFailed(s)
    ELSE IF LoopCondition(s) THEN [s EXCEPT !.state = "loop"]
    ELSE CaptureReturn(s, "ceiling")

\* a loud chunk leaves a running silence timer as it is
SilenceCheckNoReset(s, rms, now) ==
    IF rms < silence_threshold
    THEN IF s.silence_start = NoTime
         THEN [s EXCEPT !.silence_start = now, !.timer_chunk = s.total_recorded]
         ELSE IF now - s.silence_start >= silence_duration * TicksPerChunk
              THEN [s EXCEPT !.stop = "silence"]
              ELSE s
    ELSE [s EXCEPT !.last_loud = s.total_recorded]

\* the silence check of one chunk read at clock value now
SilenceCheck(s, rms, now) ==
    IF rms < silence_threshold
    THEN IF s.silence_start = NoTime
         THEN [s EXCEPT !.silence_start = now, !.timer_chunk = s.total_recorded]
         ELSE IF now - s.silence_start >= silence_duration * TicksPerChunk
              THEN [s EXCEPT !.stop = "silence"]
              ELSE s
    ELSE [s EXCEPT !.silence_start = NoTime, !.last_loud = s.total_recorded,
                   !.timer_chunk = 0]

\* a read that reports an overflow is treated as a device failure
ReadChunkOpOverflowAborts(s, read_ok, overflowed, rms, now) ==
    IF ~read_ok THEN CaptureFailed(s)
    ELSE IF overflowed THEN CaptureFailed([s EXCEPT !.overflowed = TRUE])
    ELSE LET appended == [s EXCEPT !.total_recorded = @ + 1, !.overflowed = overflowed]
             checked == SilenceCheck(appended, rms, now)
         IN  IF checked.stop = "silence" THEN CaptureReturn(checked, "silence")
             ELSE IF LoopCondition(checked) THEN checked
             ELSE CaptureReturn(checked, "ceiling")

\* one pass of the loop body, then the loop condition again
ReadChunkOp(s, read_ok, overflowed, rms, now) ==
    IF ~read_ok THEN CaptureFailed(s)
    ELSE LET appended == [s EXCEPT !.total_recorded = @ + 1, !.overflowed = overflowed]
             checked == SilenceCheck(appended, rms, now)
         IN  IF checked.stop = "silence" THEN CaptureReturn(checked, "silence")
             ELSE IF LoopCondition(checked) THEN checked
             ELSE CaptureReturn(checked, "ceiling")

\* time.time() after the read of chunk k: the chunk's end plus a wake-up delay
\* shorter than one chunk
ClockValues(k) == { k * TicksPerChunk + j : j \in 0..(TicksPerChunk - 1) }

\* what the device and the clock deliver for one chunk
StreamEvents ==
    [read_ok : BOOLEAN, overflowed : BOOLEAN, rms : Loudness, jitter : 0..(TicksPerChunk - 1)]

\* the while loop run over a stream of chunk events
RECURSIVE RunLoop(_, _)
RunLoop(s, stream) ==
    IF s.state # "loop" \/ stream = << >> THEN s
    ELSE LET ev == Head(stream)
             now == (s.total_recorded + 1) * TicksPerChunk + ev.jitter
         IN  RunLoop(ReadChunkOp(s, ev.read_ok, ev.overflowed, ev.rms, now), Tail(stream))

\* record_audio(duration): the session when the call returns
record_audio(duration, opened, stream) ==
    RunLoop(OpenStreamOp(NewSession(duration), opened), stream)

-----------------------------------------------------------------------------
(* speech_to_text: the text handling after the recognition call *)

Whitespace == {"sp", "nl", "tab"}

Transcriptions ==
    { << >>, <<"sp">>, <<"nl", "sp">>, <<"h">>, <<"sp", "h", "tab">> }

RECURSIVE lstrip(_)
lstrip(s) == IF s # << >> /\ Head(s) \in Whitespace THEN lstrip(Tail(s)) ELSE s

RECURSIVE rstrip(_)
rstrip(s) ==
    IF s # << >> /\ s[Len(s)] \in Whitespace THEN rstrip(SubSeq(s, 1, Len(s) - 1)) ELSE s

\* str.strip()
strip(s) == rstrip(lstrip(s))

None == [some |-> FALSE, text |-> << >>]

\* the response text used without strip()
speech_to_text_unstripped(outcome, transcription) ==
    CASE outcome = "wav_error" -> [raises |-> TRUE, value |-> [some |-> FALSE, text |-> << >>]]
      [] outcome = "stt_error" -> [raises |-> FALSE, value |-> [some |-> FALSE, text |-> << >>]]
      [] OTHER ->
           [raises |-> FALSE,
            value |-> IF transcription # << >>
                      THEN [some |-> TRUE, text |-> transcription]
                      ELSE [some |-> FALSE, text |-> << >>]]

\* a failure of the recognition call that is not caught inside speech_to_text
speech_to_text_raising(outcome, transcription) ==
    CASE outcome \in {"wav_error", "stt_error"} ->
           [raises |-> TRUE, value |-> [some |-> FALSE, text |-> << >>]]
      [] OTHER ->
           [raises |-> FALSE,
            value |-> IF strip(transcription) # << >>
                      THEN [some |-> TRUE, text |-> strip(transcription)]
                      ELSE [some |-> FALSE, text |-> << >>]]

\* what speech_to_text returns: "wav_error" is a failure while the WAV file is
\* written (outside the inner try: it propagates), "stt_error" a failure of the
\* MP3 conversion or of the recognition call (caught, None), "text" a response
speech_to_text(outcome, transcription) ==
    CASE outcome = "wav_error" -> [raises |-> TRUE, value |-> None]
      [] outcome = "stt_error" -> [raises |-> FALSE, value |-> None]
      [] OTHER ->
           LET text == strip(transcription)
           IN  [raises |-> FALSE,
                value |-> IF text # << >> THEN [some |-> TRUE, text |-> text] ELSE None]

SttOutcomes == {"wav_error", "stt_error", "text"}

-----------------------------------------------------------------------------
(* converse: results and exception handlers *)

NotHeard == [outcome |-> "none", transcription |-> << >>]

NoResult == [kind |-> "none", text |-> << >>, timing |-> {}]

Result(kind) == [kind |-> kind, text |-> << >>, timing |-> {}]

\* an except clause that logs and re-raises
CatchReraise(site) == "raise"

\* the except clause that receives an exception raised at a site of converse:
\* the speak-only try, the local try, or only the outermost try
Catch(site) ==
    CASE site = "speak_only" -> "error_exception"      \* "Error: {e}"
      [] site = "local" -> "error_exception"           \* "Error: {e}"
      [] OTHER -> "unexpected_error"                   \* "Unexpected error: {e}"

\* the string built after the locked section of a local listening turn
FormatResult(response_text, t_keys) ==
    IF response_text.some
    THEN [kind |-> "voice_response", text |-> response_text.text, timing |-> t_keys]
    ELSE [kind |-> "no_speech", text |-> << >>, timing |-> t_keys]

DoneKinds == {"spoken", "voice_response", "no_speech", "livekit"}
ErrorKinds == {"speak_failed", "error_exception", "error_speak", "error_record",
               "unknown_transport", "unexpected_error"}

ListenDurations == {0, MaxListenChunks * TicksPerChunk}
CueOutcomes == {"disabled", "played", "failed"}

-----------------------------------------------------------------------------
(* settings and module configuration *)

\* None
Null == "<None>"

\* VoiceSettings(): the defaults of the dataclass (silence_timeout in chunks,
\* listen_duration in seconds)
VoiceSettings ==
    [tts_provider |-> "openai", tts_voice |-> "nova", tts_model |-> "tts-1",
     stt_provider |-> "openai", stt_model |-> "whisper-1",
     silence_timeout |-> silence_duration, listen_duration |-> 180,
     audio_feedback |-> "chime", allow_emotions |-> FALSE, auto_start_kokoro |-> FALSE,
     prefer_local |-> TRUE, last_updated |-> ""]

\* save_settings stamps the record: datetime.now().isoformat()
Stamp(settings) == [settings EXCEPT !.last_updated = "now"]

\* the record in memory and in the file once voice_mcp.settings is imported
\* with no settings file: the defaults, saved
FirstSettings == Stamp(VoiceSettings)

\* the module constants of a default installation
DefaultConfig ==
    [PREFER_LOCAL |-> TRUE, ALLOW_EMOTIONS |-> FALSE, TTS_BASE_URL |-> "openai",
     STT_BASE_URL |-> "openai", TTS_MODEL |-> "tts-1", TTS_VOICE |-> "nova",
     STT_MODEL |-> "whisper-1", tts_kokoro_client |-> TRUE]

NoResolution == [kind |-> "none"]

\* update_setting(key, value): a key that is no attribute of VoiceSettings is
\* refused, otherwise the record is changed and saved
update_setting(settings, key, value) ==
    IF key \in DOMAIN settings THEN [settings EXCEPT ![key] = value] ELSE settings

\* str(flag).lower()
BoolText(flag) == IF flag THEN "true" ELSE "false"

\* apply_to_environment: the variables written from the record in memory
\* (Null: the variable is not set)
apply_to_environment(env, settings) ==
    LET tts == IF settings.tts_provider = "kokoro"
               THEN [env EXCEPT !.TTS_BASE_URL = "http://localhost:8880/v1",
                                !.TTS_VOICE = settings.tts_voice]
               ELSE IF settings.tts_provider = "openai"
               THEN [env EXCEPT !.TTS_BASE_URL = Null, !.TTS_VOICE = settings.tts_voice]
               ELSE env
        stt == IF settings.stt_provider = "local"
               THEN [tts EXCEPT !.STT_BASE_URL = "http://localhost:2022/v1"]
               ELSE IF settings.stt_provider = "openai"
               THEN [tts EXCEPT !.STT_BASE_URL = Null]
               ELSE tts
    IN  [stt EXCEPT !.TTS_MODEL = settings.tts_model,
                    !.STT_MODEL = settings.stt_model,
                    !.VOICE_MCP_SILENCE_TIMEOUT = settings.silence_timeout,
                    !.VOICE_MCP_AUDIO_FEEDBACK = settings.audio_feedback,
                    !.VOICE_ALLOW_EMOTIONS = BoolText(settings.allow_emotions),
                    !.VOICE_MCP_AUTO_START_KOKORO = BoolText(settings.auto_start_kokoro),
                    !.VOICE_MCP_PREFER_LOCAL = BoolText(settings.prefer_local)]

\* the variables of the process before voice_mcp.settings is imported
BaseEnviron ==
    [TTS_BASE_URL |-> Null, TTS_VOICE |-> Null, TTS_MODEL |-> Null, STT_BASE_URL |-> Null,
     STT_MODEL |-> Null, VOICE_MCP_SILENCE_TIMEOUT |-> Null,
     VOICE_MCP_AUDIO_FEEDBACK |-> Null, VOICE_ALLOW_EMOTIONS |-> Null,
     VOICE_MCP_AUTO_START_KOKORO |-> Null, VOICE_MCP_PREFER_LOCAL |-> Null]

\* settings_manager.apply_to_environment() at import
ImportedEnviron == apply_to_environment(BaseEnviron, FirstSettings)

\* set_silence_timeout accepts 0 < timeout <= 60 s (in chunks of 100 ms)
MaxSilenceTimeout == 600

SilenceTimeouts == {0, silence_duration - 5, silence_duration + 5, MaxSilenceTimeout + 1}

\* no probe, no synthesis and no settings tool has been called yet
NoProbe == [state |-> "idle"]
NoSynthesis == [state |-> "idle"]
NoWav == [state |-> "idle"]
NoReply == [tool |-> "none", set_provider |-> Null]
NoTranscription == [state |-> "idle"]

\* importing voice_mcp.settings with no settings file: load_settings creates
\* the defaults and saves them
ToolInit ==
    /\ probe = NoProbe
    /\ synth = NoSynthesis
    /\ wav = NoWav
    /\ persisted = FirstSettings
    /\ reply = NoReply
    /\ writable = TRUE
    /\ stt_call = NoTranscription

-----------------------------------------------------------------------------
(* providers.py and the resolvers get_tts_config / get_stt_config *)

\* Python's None where a string is optional
\* the truth value of an optional string: None and "" are false
Truthy(x) == x # Null /\ x # ""

\* a or b
OrElse(a, b) == IF Truthy(a) THEN a ELSE b

\* the registry: the entries read by the resolvers
PROVIDERS ==
    [ p \in {"kokoro", "openai", "whisper-local", "openai-whisper", "gemini"} |->
        CASE p = "kokoro" ->
               [id |-> "kokoro", type |-> "tts", base_url |-> "http://localhost:8880/v1",
                local |-> TRUE, default_voice |-> "af_sky", models |-> <<"tts-1">>,
                default_model |-> Null]
          [] p = "openai" ->
               [id |-> "openai", type |-> "tts", base_url |-> "https://api.openai.com/v1",
                local |-> FALSE, default_voice |-> "alloy",
                models |-> <<"tts-1", "tts-1-hd", "gpt-4o-mini-tts">>, default_model |-> Null]
          [] p = "whisper-local" ->
               [id |-> "whisper-local", type |-> "stt", base_url |-> "http://localhost:2022/v1",
                local |-> TRUE, default_voice |-> Null, models |-> <<"whisper-1">>,
                default_model |-> Null]
          [] p = "openai-whisper" ->
               [id |-> "openai-whisper", type |-> "stt",
                base_url |-> "https://api.openai.com/v1", local |-> FALSE,
                default_voice |-> Null, models |-> <<"whisper-1">>, default_model |-> Null]
          [] OTHER ->
               [id |-> "gemini", type |-> "tts",
                base_url |-> "https://generativelanguage.googleapis.com/v1beta",
                local |-> FALSE, default_voice |-> "Zephyr",
                models |-> <<"gemini-2.5-flash-preview-tts", "gemini-2.5-pro-preview-tts">>,
                default_model |-> "gemini-2.5-flash-preview-tts"] ]

\* the voices of the model that start with af_, am_, bf_ or bm_
KokoroPrefixed == {"af_sky", "af_sarah", "am_adam", "af_nicole", "am_michael"}

\* PROVIDERS[p]["voices"] of the synthesis backends of the registry
ProviderVoices ==
    [ kokoro |-> {"af_sky", "af_sarah", "am_adam", "af_nicole", "am_michael"},
      openai |-> {"alloy", "nova", "echo", "fable", "onyx", "shimmer"},
      gemini |-> {"Aoede", "Callisto", "Charon", "Deimos", "Echo", "Europa",
                  "Fenrir", "Ganymede", "Hera", "Io", "Kore", "Lunara",
                  "Minerva", "Naia", "Nova", "Oberon", "Phobos", "Quorra",
                  "Rhea", "Selene", "Titan", "Umbra", "Vega", "Whisper",
                  "Xara", "Yuki", "Zephyr", "Astra", "Cypher", "Delta"} ]

\* the list gemini_voices of get_provider_by_voice
gemini_voices ==
    {"Aoede", "Callisto", "Charon", "Deimos", "Echo", "Europa",
     "Fenrir", "Ganymede", "Hera", "Io", "Kore", "Lunara",
     "Minerva", "Naia", "Nova", "Oberon", "Phobos", "Quorra",
     "Rhea", "Selene", "Titan", "Umbra", "Vega", "Whisper",
     "Xara", "Yuki", "Zephyr", "Astra", "Cypher", "Delta"}

\* the tuple of prefixes given to voice.startswith
KokoroPrefixes == {"af_", "am_", "bf_", "bm_"}

\* s.startswith(prefix)
startswith(s, prefix) == Len(s) >= Len(prefix) /\ SubSeq(s, 1, Len(prefix)) = prefix

\* get_provider_by_voice without the test on the prefix
get_provider_by_voice_listed(voice) ==
    IF voice \in gemini_voices THEN "gemini" ELSE "openai"

\* get_provider_by_voice(voice)["id"]
get_provider_by_voice(voice) ==
    IF \E prefix \in KokoroPrefixes : startswith(voice, prefix)
    THEN PROVIDERS["kokoro"].id
    ELSE IF voice \in gemini_voices THEN PROVIDERS["gemini"].id
    ELSE PROVIDERS["openai"].id

\* the provider the environment default names: TTS_BASE_URL is given by what
\* the tests on it see ("" unset, "openai" contains openai.com, "gemini"
\* contains generativelanguage.googleapis.com, "other" anything else)
EnvTtsProvider(TTS_BASE_URL) ==
    IF TTS_BASE_URL # "" /\ TTS_BASE_URL # "openai"
    THEN IF TTS_BASE_URL = "gemini" THEN "gemini" ELSE "kokoro"
    ELSE "openai"

EnvSttProvider(STT_BASE_URL) ==
    IF STT_BASE_URL # "" /\ STT_BASE_URL # "openai" THEN "whisper-local" ELSE "openai-whisper"

\* validate_emotion_request: the instructions handed on to get_tts_config
validate_emotion_request(tts_model, tts_instructions, cfg) ==
    IF ~Truthy(tts_instructions) THEN tts_instructions
    ELSE IF tts_model = "gpt-4o-mini-tts" /\ ~cfg.ALLOW_EMOTIONS THEN Null
    ELSE tts_instructions

Raised == [raises |-> TRUE]

Returned(value) == [raises |-> FALSE, value |-> value]

\* a saved setting is the default of a parameter the caller left out
SavedDefault(arg, saved) == IF arg = Null THEN saved ELSE arg

\* the local backend is taken whenever it is reachable, whoever was named
PreferLocalFirst(provider, prefer_local, available, local, hosted) ==
    IF prefer_local /\ available THEN local
    ELSE IF provider = Null /\ prefer_local THEN hosted
    ELSE provider

\* no provider so far and PREFER_LOCAL set: the local backend if it is
\* reachable, otherwise the hosted one
PreferLocal(provider, prefer_local, available, local, hosted) ==
    IF provider = Null /\ prefer_local
    THEN (IF available THEN local ELSE hosted)
    ELSE provider

\* the instructions are passed on whatever the model
ValidateInstructionsOff(instructions, model) == instructions

\* instructions are kept only for the model that supports them
ValidateInstructions(instructions, model) ==
    IF Truthy(instructions) /\ model # "gpt-4o-mini-tts" THEN Null ELSE instructions

\* an id the registry does not know falls back to the local backend
RegistryLookupLocal(provider, fallback) ==
    IF provider \in DOMAIN PROVIDERS THEN provider ELSE "kokoro"

\* PROVIDERS.get(provider), and the fallback id when there is no such entry
RegistryLookup(provider, fallback) ==
    IF provider \in DOMAIN PROVIDERS THEN provider ELSE fallback

\* get_tts_config(provider, voice, model, instructions) with the saved
\* settings, the module constants and the answer is_provider_available("kokoro")
\* would give
get_tts_config(provider, voice, model, instructions, settings, cfg, kokoro_available) ==
    LET load == provider = Null \/ voice = Null \/ model = Null
        p1 == IF load THEN SavedDefault(provider, settings.tts_provider) ELSE provider
        v1 == IF load THEN SavedDefault(voice, settings.tts_voice) ELSE voice
        read_model == load /\ model = Null /\ p1 = "gemini"
        read_prompt == load /\ instructions = Null /\ p1 = "gemini"
        \* an attribute VoiceSettings does not have: AttributeError
        attribute_error ==
            \/ read_model /\ "gemini_model" \notin DOMAIN settings
            \/ read_prompt /\ "gemini_system_prompt" \notin DOMAIN settings
        m1 == IF read_model THEN settings.gemini_model ELSE model
        i1 == IF read_prompt THEN settings.gemini_system_prompt ELSE instructions
        p2 == IF p1 = Null /\ Truthy(v1) THEN get_provider_by_voice(v1) ELSE p1
        p3 == PreferLocal(p2, cfg.PREFER_LOCAL, kokoro_available, "kokoro", "openai")
        p4 == IF p3 = Null THEN EnvTtsProvider(cfg.TTS_BASE_URL) ELSE p3
        i2 == ValidateInstructions(i1, m1)
        p5 == RegistryLookup(p4, "openai")
        provider_info == PROVIDERS[p5]
    IN  IF attribute_error THEN Raised
        ELSE IF p5 = "kokoro"
        THEN Returned([client_key |-> IF cfg.tts_kokoro_client THEN "tts_kokoro" ELSE "tts",
                       base_url |-> provider_info.base_url,
                       model |-> OrElse(m1, provider_info.models[1]),
                       voice |-> OrElse(v1, provider_info.default_voice),
                       instructions |-> Null,
                       provider |-> "kokoro"])
        ELSE IF p5 = "gemini"
        THEN Returned([client_key |-> "gemini",
                       base_url |-> provider_info.base_url,
                       model |-> OrElse(m1, provider_info.default_model),
                       voice |-> OrElse(v1, provider_info.default_voice),
                       instructions |-> i2,
                       provider |-> "gemini"])
        ELSE Returned([client_key |-> "tts_openai",
                       base_url |-> provider_info.base_url,
                       model |-> OrElse(m1, cfg.TTS_MODEL),
                       voice |-> OrElse(v1, IF provider_info.default_voice # Null
                                            THEN provider_info.default_voice
                                            ELSE cfg.TTS_VOICE),
                       instructions |-> i2,
                       provider |-> "openai"])

\* get_stt_config(provider) with the module constants and the answer
\* is_provider_available("whisper-local") would give
get_stt_config(provider, cfg, whisper_available) ==
    LET p1 == PreferLocal(provider, cfg.PREFER_LOCAL, whisper_available,
                          "whisper-local", "openai-whisper")
        p2 == IF p1 = Null THEN EnvSttProvider(cfg.STT_BASE_URL) ELSE p1
        p3 == RegistryLookup(p2, "openai-whisper")
        provider_info == PROVIDERS[p3]
    IN  Returned([client_key |-> "stt",
                  base_url |-> provider_info.base_url,
                  model |-> cfg.STT_MODEL,
                  provider |-> p3])

-----------------------------------------------------------------------------
Init ==
    /\ pc = [t \in Turns |-> "idle"]
    /\ cue_failed = [t \in Turns |-> {}]
    /\ wait_for_response = [t \in Turns |-> FALSE]
    /\ transport = [t \in Turns |-> "auto"]
    /\ listen_duration = [t \in Turns |-> 0]
    /\ result = [t \in Turns |-> NoResult]
    /\ raised = [t \in Turns |-> FALSE]
    /\ phases = [t \in Turns |-> << >>]
    /\ timings = [t \in Turns |-> {}]
    /\ audio_operation_lock = LockInit
    /\ startup_initialized = FALSE
    /\ service_processes = {}
    /\ startup_runs = [body |-> 0, popen |-> 0]
    /\ auto_start_kokoro \in BOOLEAN
    /\ audio_data = [t \in Turns |-> -1]
    /\ tts_success = [t \in Turns |-> "none"]
    /\ heard = [t \in Turns |-> NotHeard]
    /\ cap = NoSession
    /\ user_settings = FirstSettings
    /\ environ = ImportedEnviron
    /\ config = DefaultConfig
    /\ resolution = NoResolution
    /\ ToolInit

CallVars == << probe, synth, wav, reply, writable, stt_call >>
ToolVars == << CallVars, persisted >>
SettingsVars == << user_settings, environ, config, resolution, ToolVars >>
StartupVars == << startup_initialized, service_processes, startup_runs, auto_start_kokoro >>
FrameVars == << wait_for_response, transport, listen_duration, timings >>
ObsVars == << audio_data, tts_success, heard >>

\* converse returns: the value reaches the caller (or the exception does) and
\* the locals of the call are gone
Leave(t, res, steps) ==
    /\ result' = [result EXCEPT ![t] = res]
    /\ raised' = [raised EXCEPT ![t] = (res.kind = "raise")]
    /\ phases' = [phases EXCEPT ![t] = @ \o steps \o <<"return">>]
    /\ pc' = [pc EXCEPT ![t] = "returned"]
    /\ transport' = [transport EXCEPT ![t] = "auto"]
    /\ listen_duration' = [listen_duration EXCEPT ![t] = 0]
    /\ timings' = [timings EXCEPT ![t] = {}]
    /\ cue_failed' = [cue_failed EXCEPT ![t] = {}]

\* the call goes on to its next await
Goto(t, next, steps) ==
    /\ pc' = [pc EXCEPT ![t] = next]
    /\ phases' = [phases EXCEPT ![t] = @ \o steps]
    /\ UNCHANGED << result, raised, cue_failed >>

\* play_audio_feedback(text) has returned: an exception inside it was caught
\* and logged, and the call goes on
AfterCue(t, text, cue, next) ==
    /\ pc' = [pc EXCEPT ![t] = next]
    /\ phases' = [phases EXCEPT ![t] = Append(@, IF text = "listening" THEN "cue_listening"
                                                      ELSE "cue_finished")]
    /\ cue_failed' = [cue_failed EXCEPT ![t] = IF cue = "failed" THEN @ \cup {text} ELSE @]
    /\ UNCHANGED << result, raised >>

\* explicit acquire/release with the release only at the end of the section:
\* the early error returns keep the lock
ExitLockedLeak(t, res, steps) ==
    /\ audio_operation_lock' =
          IF res.kind \in DoneKinds THEN LockRelease(audio_operation_lock)
          ELSE audio_operation_lock
    /\ Leave(t, res, steps \o <<"release">>)

\* leaving the  async with  block: __aexit__ releases the lock on a return and
\* on an exception alike
ExitLocked(t, res, steps) ==
    /\ audio_operation_lock' = LockRelease(audio_operation_lock)
    /\ Leave(t, res, steps \o <<"release">>)

\* startup_initialization with the flag set only once the body is through:
\* a concurrent call finds it unset and runs the body again
ConverseLateFlag(t) ==
    /\ pc[t] = "idle"
    /\ IF startup_initialized /\ \A u \in Turns : pc[u] \notin {"startup_health", "startup_sleep"}
       THEN /\ Goto(t, "entry", << >>)
            /\ UNCHANGED << startup_initialized, startup_runs >>
       ELSE /\ startup_initialized' = TRUE
            /\ startup_runs' = [startup_runs EXCEPT !.body = IF @ < 2 THEN @ + 1 ELSE @]
            /\ Goto(t, IF auto_start_kokoro THEN "startup_health" ELSE "entry", << >>)
    /\ UNCHANGED << FrameVars, ObsVars, audio_operation_lock, service_processes,
                    auto_start_kokoro, cap, SettingsVars >>

\* converse is called; startup_initialization runs up to its first await
Converse(t) ==
    /\ pc[t] = "idle"
    /\ IF startup_initialized
       THEN /\ Goto(t, "entry", << >>)
            /\ UNCHANGED << startup_initialized, startup_runs >>
       ELSE /\ startup_initialized' = TRUE
            /\ startup_runs' = [startup_runs EXCEPT !.body = @ + 1]
            /\ Goto(t, IF auto_start_kokoro THEN "startup_health" ELSE "entry", << >>)
    /\ UNCHANGED << FrameVars, ObsVars, audio_operation_lock, service_processes,
                    auto_start_kokoro, cap, SettingsVars >>

\* the Kokoro health request returns; on anything but 200 the service is spawned
StartupHealth(t) ==
    /\ pc[t] = "startup_health"
    /\ \E running \in BOOLEAN, popen_ok \in BOOLEAN :
          IF running \/ "kokoro" \in service_processes
          THEN /\ Goto(t, "entry", << >>)
               /\ UNCHANGED << service_processes, startup_runs >>
          ELSE /\ startup_runs' = [startup_runs EXCEPT !.popen = @ + 1]
               /\ IF popen_ok
                  THEN /\ service_processes' = service_processes \cup {"kokoro"}
                       /\ Goto(t, "startup_sleep", << >>)
                  ELSE /\ Goto(t, "entry", << >>)
                       /\ UNCHANGED service_processes
    /\ UNCHANGED << FrameVars, ObsVars, audio_operation_lock, startup_initialized,
                    auto_start_kokoro, cap, SettingsVars >>

\* the two-second wait after the spawn is over
StartupSleep(t) ==
    /\ pc[t] = "startup_sleep"
    /\ Goto(t, "entry", << >>)
    /\ UNCHANGED << FrameVars, ObsVars, audio_operation_lock, StartupVars, cap, SettingsVars >>

\* the transport branch taken without looking at wait_for_response first
DispatchIgnoresWait(t) ==
    /\ pc[t] = "entry"
    /\ \E w \in BOOLEAN, tr \in Transports :
          /\ wait_for_response' = [wait_for_response EXCEPT ![t] = w]
          /\ IF tr \in {"auto", "livekit", "local"}
             THEN /\ transport' = [transport EXCEPT ![t] = tr]
                  /\ Goto(t, CASE tr = "auto" -> "probe"
                               [] tr = "livekit" -> "livekit"
                               [] OTHER -> "acquire", << >>)
                  /\ UNCHANGED << listen_duration, timings >>
             ELSE Leave(t, Result("unknown_transport"), << >>)
    /\ UNCHANGED << ObsVars, audio_operation_lock, StartupVars, cap, SettingsVars >>

\* the branch on the arguments wait_for_response and transport (an argument
\* takes its value where converse first reads it)
Dispatch(t) ==
    /\ pc[t] = "entry"
    /\ \E w \in BOOLEAN, tr \in Transports :
          /\ wait_for_response' = [wait_for_response EXCEPT ![t] = w]
          /\ IF ~w
             THEN /\ Goto(t, "acquire", << >>)
                  /\ UNCHANGED << transport, listen_duration, timings >>
             ELSE IF tr \in {"auto", "livekit", "local"}
             THEN /\ transport' = [transport EXCEPT ![t] = tr]
                  /\ Goto(t, CASE tr = "auto" -> "probe"
                               [] tr = "livekit" -> "livekit"
                               [] OTHER -> "acquire", << >>)
                  /\ UNCHANGED << listen_duration, timings >>
             ELSE Leave(t, Result("unknown_transport"), << >>)
    /\ UNCHANGED << ObsVars, audio_operation_lock, StartupVars, cap, SettingsVars >>

\* 'auto' that does not fall back: when the room probe fails the transport
\* stays 'auto' and no branch of converse takes it
ProbeLivekitNoFallback(t) ==
    /\ pc[t] = "probe"
    /\ \E available \in BOOLEAN :
          IF available
          THEN /\ transport' = [transport EXCEPT ![t] = "livekit"]
               /\ Goto(t, "livekit", << >>)
               /\ UNCHANGED << listen_duration, timings >>
          ELSE Leave(t, Result("unknown_transport"), << >>)
    /\ UNCHANGED << wait_for_response, ObsVars, audio_operation_lock, StartupVars, cap,
                    SettingsVars >>

\* check_livekit_available returns (it catches its own errors and answers False)
ProbeLivekit(t) ==
    /\ pc[t] = "probe"
    /\ \E available \in BOOLEAN :
          /\ transport' = [transport EXCEPT ![t] = IF available THEN "livekit" ELSE "local"]
          /\ Goto(t, IF available THEN "livekit" ELSE "acquire", << >>)
    /\ UNCHANGED << wait_for_response, listen_duration, timings, ObsVars,
                    audio_operation_lock, StartupVars, cap, SettingsVars >>

\* livekit_ask_voice_question returns its string (it catches its own errors)
LivekitTurn(t) ==
    /\ pc[t] = "livekit"
    /\ Leave(t, Result("livekit"), <<"room">>)
    /\ UNCHANGED << wait_for_response, ObsVars, audio_operation_lock, StartupVars, cap, SettingsVars >>

\* the locked section entered without the  async with
AcquireLockUnguarded(t) ==
    /\ pc[t] = "acquire"
    /\ audio_operation_lock' = LockTake(audio_operation_lock)
    /\ Goto(t, "resolve", <<"acquire">>)
    /\ UNCHANGED << FrameVars, ObsVars, StartupVars, cap, SettingsVars >>

\* async with audio_operation_lock: taken at once, or the call queues
AcquireLock(t) ==
    /\ pc[t] = "acquire"
    /\ IF LockFree(audio_operation_lock)
       THEN /\ audio_operation_lock' = LockTake(audio_operation_lock)
            /\ Goto(t, "resolve", <<"acquire">>)
       ELSE /\ audio_operation_lock' = LockEnqueue(audio_operation_lock, t)
            /\ Goto(t, "wait_lock", << >>)
    /\ UNCHANGED << FrameVars, ObsVars, StartupVars, cap, SettingsVars >>

\* a queued call whose future was completed resumes and takes the lock
LockGranted(t) ==
    /\ pc[t] = "wait_lock"
    /\ t \in audio_operation_lock.woken
    /\ audio_operation_lock' = LockResume(audio_operation_lock, t)
    /\ Goto(t, "resolve", <<"acquire">>)
    /\ UNCHANGED << FrameVars, ObsVars, StartupVars, cap, SettingsVars >>

ExceptionSite(t) == IF wait_for_response[t] THEN "local" ELSE "speak_only"

\* validate_emotion_request and get_tts_config return a config, or
\* get_tts_config raises
ResolveTts(t) ==
    /\ pc[t] = "resolve"
    /\ \E resolved \in BOOLEAN :
          IF resolved
          THEN /\ Goto(t, "speak", <<"resolve">>)
               /\ UNCHANGED << transport, listen_duration, timings, audio_operation_lock >>
          ELSE ExitLocked(t, Result(Catch(ExceptionSite(t))), <<"resolve">>)
    /\ UNCHANGED << wait_for_response, ObsVars, StartupVars, cap, SettingsVars >>

\* the listening turn goes on without testing tts_success
SpeakIgnoreFailure(t) ==
    /\ pc[t] = "speak"
    /\ \E outcome \in {"ok", "failed", "raise"}, metrics \in BOOLEAN :
          IF outcome = "raise"
          THEN /\ ExitLocked(t, Result(Catch(ExceptionSite(t))), <<"speak">>)
               /\ UNCHANGED tts_success
          ELSE /\ tts_success' = [tts_success EXCEPT ![t] = outcome]
               /\ IF ~wait_for_response[t]
                  THEN ExitLocked(t, Result(IF outcome = "ok" THEN "spoken" ELSE "speak_failed"),
                                  <<"speak">>)
                  ELSE /\ timings' = [timings EXCEPT ![t] =
                                        @ \cup (IF metrics THEN {"tts_gen", "tts_play"} ELSE {})
                                          \cup {"tts_total"}]
                       /\ Goto(t, "pause", <<"speak">>)
                       /\ UNCHANGED << transport, listen_duration, audio_operation_lock >>
    /\ UNCHANGED << wait_for_response, audio_data, heard, StartupVars, cap, SettingsVars >>

\* text_to_speech returns (success, metrics), or raises
Speak(t) ==
    /\ pc[t] = "speak"
    /\ \E outcome \in {"ok", "failed", "raise"}, metrics \in BOOLEAN :
          IF outcome = "raise"
          THEN /\ ExitLocked(t, Result(Catch(ExceptionSite(t))), <<"speak">>)
               /\ UNCHANGED tts_success
          ELSE /\ tts_success' = [tts_success EXCEPT ![t] = outcome]
               /\ IF ~wait_for_response[t]
                  THEN ExitLocked(t, Result(IF outcome = "ok" THEN "spoken" ELSE "speak_failed"),
                                  <<"speak">>)
                  ELSE IF outcome = "failed"
                  THEN ExitLocked(t, Result("error_speak"), <<"speak">>)
                  ELSE /\ timings' = [timings EXCEPT ![t] =
                                        @ \cup (IF metrics THEN {"tts_gen", "tts_play"} ELSE {})
                                          \cup {"tts_total"}]
                       /\ Goto(t, "pause", <<"speak">>)
                       /\ UNCHANGED << transport, listen_duration, audio_operation_lock >>
    /\ UNCHANGED << wait_for_response, audio_data, heard, StartupVars, cap, SettingsVars >>

\* the half-second pause before listening is over
PauseDone(t) ==
    /\ pc[t] = "pause"
    /\ Goto(t, "cue_listening", << >>)
    /\ UNCHANGED << FrameVars, ObsVars, audio_operation_lock, StartupVars, cap, SettingsVars >>

\* an exception inside play_audio_feedback("listening") reaches converse,
\* whose handler ends the turn
CueListeningRaises(t) ==
    /\ pc[t] = "cue_listening"
    /\ \E cue \in CueOutcomes, d \in ListenDurations :
          IF cue = "failed"
          THEN ExitLocked(t, Result(Catch("local")), <<"cue_listening">>)
          ELSE /\ listen_duration' = [listen_duration EXCEPT ![t] = d]
               /\ AfterCue(t, "listening", cue, "record")
               /\ UNCHANGED << transport, timings, audio_operation_lock >>
    /\ UNCHANGED << wait_for_response, ObsVars, StartupVars, cap, SettingsVars >>

\* play_audio_feedback("listening") returns, whatever happened inside; the
\* executor is then given record_audio(listen_duration)
CueListening(t) ==
    /\ pc[t] = "cue_listening"
    /\ \E cue \in CueOutcomes, d \in ListenDurations :
          /\ listen_duration' = [listen_duration EXCEPT ![t] = d]
          /\ AfterCue(t, "listening", cue, "record")
    /\ UNCHANGED << wait_for_response, transport, timings, ObsVars,
                    audio_operation_lock, StartupVars, cap, SettingsVars >>

\* the lengths of the arrays record_audio can return for a listen duration,
\* over every stream the device and the clock can deliver
RecordedLengths[d \in ListenDurations] ==
    { s.buffer : s \in { r \in { record_audio(d, opened, stream) :
                                     opened \in BOOLEAN,
                                     stream \in [1..MaxListenChunks -> StreamEvents] } :
                             r.state = "done" } }

\* the recording is started a second time instead of going on to the cue
RecordDoneAgain(t) ==
    /\ pc[t] = "record"
    /\ \E n \in RecordedLengths[listen_duration[t]] :
          audio_data' = [audio_data EXCEPT ![t] = n]
    /\ timings' = [timings EXCEPT ![t] = @ \cup {"record"}]
    /\ Goto(t, IF "record" \in { phases[t][i] : i \in 1..Len(phases[t]) }
               THEN "cue_finished" ELSE "record", <<"record">>)
    /\ UNCHANGED << wait_for_response, transport, listen_duration, tts_success, heard,
                    audio_operation_lock, StartupVars, cap, SettingsVars >>

\* the awaited executor call completes: record_audio has run on what the
\* device delivered and returned its array
RecordDone(t) ==
    /\ pc[t] = "record"
    /\ \E n \in RecordedLengths[listen_duration[t]] :
          audio_data' = [audio_data EXCEPT ![t] = n]
    /\ timings' = [timings EXCEPT ![t] = @ \cup {"record"}]
    /\ Goto(t, "cue_finished", <<"record">>)
    /\ UNCHANGED << wait_for_response, transport, listen_duration, tts_success, heard,
                    audio_operation_lock, StartupVars, cap, SettingsVars >>

\* on an empty recording the call waits for audio that never comes instead of
\* ending the turn
CueFinishedWaits(t) ==
    /\ pc[t] = "cue_finished"
    /\ \E cue \in CueOutcomes : TRUE
    /\ IF audio_data[t] = 0
       THEN UNCHANGED << pc, phases, result, raised, cue_failed >>
       ELSE Goto(t, "stt", <<"cue_finished">>)
    /\ UNCHANGED << FrameVars, ObsVars, audio_operation_lock, StartupVars, cap, SettingsVars >>

\* the array goes to speech_to_text without the empty-buffer test
CueFinishedNoCheck(t) ==
    /\ pc[t] = "cue_finished"
    /\ \E cue \in CueOutcomes : TRUE
    /\ Goto(t, "stt", <<"cue_finished">>)
    /\ UNCHANGED << FrameVars, ObsVars, audio_operation_lock, StartupVars, cap, SettingsVars >>

\* play_audio_feedback("finished") returns; then the empty-buffer test, and
\* speech_to_text is called with the recorded array
CueFinished(t) ==
    /\ pc[t] = "cue_finished"
    /\ \E cue \in CueOutcomes :
          IF audio_data[t] = 0
          THEN ExitLocked(t, Result("error_record"), <<"cue_finished">>)
          ELSE /\ AfterCue(t, "finished", cue, "stt")
               /\ UNCHANGED << transport, listen_duration, timings, audio_operation_lock >>
    /\ UNCHANGED << wait_for_response, ObsVars, StartupVars, cap, SettingsVars >>

\* speech_to_text returns or raises; the locked section ends and the result
\* string is formatted
SpeechToText(t) ==
    /\ pc[t] = "stt"
    /\ \E outcome \in SttOutcomes, transcription \in Transcriptions :
          LET r == speech_to_text(outcome, transcription)
          IN  /\ outcome # "text" => transcription = << >>
              /\ heard' = [heard EXCEPT ![t] =
                             [outcome |-> outcome, transcription |-> transcription]]
              /\ IF r.raises
                 THEN ExitLocked(t, Result(Catch("local")), <<"stt">>)
                 ELSE ExitLocked(t, FormatResult(r.value, timings[t] \cup {"stt"}), <<"stt">>)
    /\ UNCHANGED << wait_for_response, audio_data, tts_success, StartupVars, cap, SettingsVars >>

\* the caller has its answer; the same client may call converse again
NewCall(t) ==
    /\ pc[t] = "returned"
    /\ pc' = [pc EXCEPT ![t] = "idle"]
    /\ wait_for_response' = [wait_for_response EXCEPT ![t] = FALSE]
    /\ result' = [result EXCEPT ![t] = NoResult]
    /\ raised' = [raised EXCEPT ![t] = FALSE]
    /\ phases' = [phases EXCEPT ![t] = << >>]
    /\ audio_data' = [audio_data EXCEPT ![t] = -1]
    /\ tts_success' = [tts_success EXCEPT ![t] = "none"]
    /\ heard' = [heard EXCEPT ![t] = NotHeard]
    /\ UNCHANGED << transport, listen_duration, timings, audio_operation_lock,
                    StartupVars, cap, SettingsVars, cue_failed >>

\* what a call does once converse has been entered
Progress(t) ==
    \/ StartupHealth(t)
    \/ StartupSleep(t)
    \/ Dispatch(t)
    \/ ProbeLivekit(t)
    \/ LivekitTurn(t)
    \/ AcquireLock(t)
    \/ LockGranted(t)
    \/ ResolveTts(t)
    \/ Speak(t)
    \/ PauseDone(t)
    \/ CueListening(t)
    \/ RecordDone(t)
    \/ CueFinished(t)
    \/ SpeechToText(t)

Next ==
    \E t \in Turns :
        \/ Converse(t)
        \/ StartupHealth(t)
        \/ StartupSleep(t)
        \/ Dispatch(t)
        \/ ProbeLivekit(t)
        \/ LivekitTurn(t)
        \/ AcquireLock(t)
        \/ LockGranted(t)
        \/ ResolveTts(t)
        \/ Speak(t)
        \/ PauseDone(t)
        \/ CueListening(t)
        \/ RecordDone(t)
        \/ CueFinished(t)
        \/ SpeechToText(t)
        \/ NewCall(t)

Spec == Init /\ [][Next]_vars

\* every awaited step returns or fails, and the event loop runs every task
\* that is ready
FairSpec == Spec /\ \A t \in Turns : WF_vars(Progress(t))

-----------------------------------------------------------------------------
(* Properties of the turn orchestrator *)

LockedPcs == {"resolve", "speak", "pause", "cue_listening", "record", "cue_finished", "stt"}

\* the call is between acquiring and releasing the device lock
InLocked(t) == pc[t] \in LockedPcs

Steps(t) == { phases[t][i] : i \in 1..Len(phases[t]) }

ListeningSteps == {"cue_listening", "record", "cue_finished", "stt"}

\* C1: at most one converse call at a time is between acquiring and releasing
\* the device lock, whether it is a speak-only or a listening turn.
C1_MutualExclusion ==
    \A a, b \in Turns : InLocked(a) /\ InLocked(b) => a = b

C1_Witness ==
    \E a, b \in Turns : a # b /\ pc[a] = "record" /\ pc[b] = "wait_lock"

\* C2: every exit from the locked section releases the lock: the lock is held
\* only while some call is inside the section, it is free whenever no call is
\* in progress, and when it is free with calls queued the first of them has
\* been woken to take it.
C2_LockReleasedOnExit ==
    /\ audio_operation_lock.locked => \E t \in Turns : InLocked(t)
    /\ (\A t \in Turns : pc[t] \in {"idle", "returned"}) => LockFree(audio_operation_lock)
    /\ (~audio_operation_lock.locked /\ audio_operation_lock.waiters # << >>)
          => Head(audio_operation_lock.waiters) \in audio_operation_lock.woken

C2_Witness ==
    \E a, b \in Turns :
        /\ a # b
        /\ pc[a] = "returned" /\ result[a].kind = "error_exception"
        /\ "release" \in Steps(a)
        /\ InLocked(b)

Canon ==
    <<"acquire", "resolve", "speak", "cue_listening", "record", "cue_finished", "stt",
      "release", "return">>

\* the await a local listening turn is suspended at after n steps
Awaiting(n) ==
    CASE n = 1 -> {"resolve"}
      [] n = 2 -> {"speak"}
      [] n = 3 -> {"pause", "cue_listening"}
      [] n = 4 -> {"record"}
      [] n = 5 -> {"cue_finished"}
      [] n = 6 -> {"stt"}
      [] OTHER -> {}

\* C3: the steps of a local listening turn are an initial part of acquire,
\* resolve, speak, listening cue, record, finished cue, transcribe, each run
\* once and the next one pending only when the previous has ended, followed
\* at the exit by release and return; a turn that ends with a recognition
\* result has run them all.
C3_PhaseOrder ==
    \A t \in Turns :
        (wait_for_response[t] /\ "acquire" \in Steps(t)) =>
            LET st == phases[t]
                n == Len(st)
            IN  IF pc[t] = "returned"
                THEN /\ \E k \in 2..7 : st = SubSeq(Canon, 1, k) \o <<"release", "return">>
                     /\ result[t].kind \in {"voice_response", "no_speech"} => st = Canon
                ELSE /\ n <= 6
                     /\ st = SubSeq(Canon, 1, n)
                     /\ pc[t] \in Awaiting(n)

C3_Witness ==
    \E t \in Turns :
        /\ pc[t] = "returned" /\ result[t].kind = "voice_response"
        /\ phases[t] = Canon

\* C4: every call that has entered converse eventually returns, with a Done
\* result or an Error result.
C4_Terminates ==
    \A t \in Turns :
        [](pc[t] # "idle" =>
              <>(pc[t] = "returned" /\ result[t].kind \in DoneKinds \cup ErrorKinds))

C4_Witness ==
    \E a, b \in Turns :
        /\ a # b
        /\ pc[a] = "returned" /\ result[a].kind \in DoneKinds
        /\ pc[b] = "returned" /\ result[b].kind \in ErrorKinds
        /\ "acquire" \in Steps(a) /\ "acquire" \in Steps(b)

\* C5: converse never raises to its caller; what it returns is one of its
\* status strings, and it returns nothing before it has ended.
C5_NeverRaises ==
    \A t \in Turns :
        /\ ~raised[t]
        /\ pc[t] = "returned" => result[t].kind \in DoneKinds \cup ErrorKinds
        /\ pc[t] # "returned" => result[t] = NoResult

C5_Witness ==
    \E t \in Turns :
        /\ pc[t] = "returned" /\ result[t].kind = "error_exception"
        /\ heard[t].outcome = "wav_error"

\* C6: when text_to_speech reports failure in a listening turn, the turn has
\* ended with "Error: Could not speak message" and has run no listening cue,
\* no recording, no finished cue and no recognition.
C6_SpeakFailureEndsTurn ==
    \A t \in Turns :
        (wait_for_response[t] /\ tts_success[t] = "failed") =>
            /\ pc[t] = "returned"
            /\ result[t].kind = "error_speak"
            /\ Steps(t) \cap ListeningSteps = {}
            /\ audio_data[t] = -1
            /\ heard[t] = NotHeard

C6_Witness ==
    \E t \in Turns : wait_for_response[t] /\ tts_success[t] = "failed" /\ pc[t] = "returned"

\* C7: an empty recorded array ends the turn with "Error: Could not record
\* audio" without recognition; recognition runs only on a non-empty array.
C7_EmptyBufferEndsTurn ==
    \A t \in Turns :
        /\ (audio_data[t] = 0 /\ pc[t] # "cue_finished") =>
              /\ pc[t] = "returned"
              /\ result[t].kind = "error_record"
              /\ "stt" \notin Steps(t)
              /\ heard[t] = NotHeard
        /\ (pc[t] = "stt" \/ "stt" \in Steps(t) \/ heard[t] # NotHeard) => audio_data[t] > 0

C7_Witness ==
    \E t \in Turns : audio_data[t] = 0 /\ pc[t] = "returned" /\ "record" \in Steps(t)

WhitespaceOnly(s) == \A i \in 1..Len(s) : s[i] \in Whitespace

\* C8: when recognition answers with empty or whitespace-only text, the turn
\* ends with the "No speech detected" result, which is none of the Error
\* results and shows the record and stt timings.
C8_NoSpeechDetected ==
    \A t \in Turns :
        (heard[t].outcome = "text" /\ WhitespaceOnly(heard[t].transcription)) =>
            /\ pc[t] = "returned"
            /\ result[t].kind = "no_speech"
            /\ result[t].kind \notin ErrorKinds
            /\ {"record", "stt"} \subseteq result[t].timing

C8_Witness ==
    \E t \in Turns :
        /\ heard[t].outcome = "text" /\ heard[t].transcription = <<"nl", "sp">>
        /\ pc[t] = "returned"

\* C9: a speak-only call runs acquire, resolve, speak, release, return and
\* nothing else: it never waits for the room probe or the room transport
\* and never reads its transport argument; no cue, no recording, no
\* recognition; once text_to_speech has answered, the call has returned.
C9_SpeakOnlyShortCircuit ==
    \A t \in Turns :
        ~wait_for_response[t] =>
            /\ pc[t] \in {"idle", "startup_health", "startup_sleep", "entry", "acquire",
                          "wait_lock", "resolve", "speak", "returned"}
            /\ transport[t] = "auto"
            /\ Steps(t) \subseteq {"acquire", "resolve", "speak", "release", "return"}
            /\ audio_data[t] = -1
            /\ heard[t] = NotHeard
            /\ tts_success[t] # "none" =>
                  /\ pc[t] = "returned"
                  /\ result[t].kind = IF tts_success[t] = "ok" THEN "spoken" ELSE "speak_failed"
                  /\ phases[t] = <<"acquire", "resolve", "speak", "release", "return">>

C9_Witness ==
    \E t \in Turns : ~wait_for_response[t] /\ pc[t] = "returned" /\ result[t].kind = "spoken"

-----------------------------------------------------------------------------
(* record_audio observed chunk by chunk *)

\* the durations given to record_audio, in ticks: negative, zero, a fraction
\* of a chunk, and whole chunks around the silence span and up to the ceiling
CaptureDurations ==
    {-TicksPerChunk, 0, 1}
      \cup { c * TicksPerChunk :
               c \in {2, silence_duration, silence_duration + 1, silence_duration + 2,
                      silence_duration + 3, 2 * silence_duration + 3, MaxCaptureChunks} }

\* record_audio(duration) has just been handed to the executor by a listening
\* call that holds the device lock: it has spoken and played the listening cue
InitCapture ==
    /\ pc = [t \in Turns |-> IF t = 1 THEN "record" ELSE "idle"]
    /\ cue_failed = [t \in Turns |-> {}]
    /\ wait_for_response = [t \in Turns |-> t = 1]
    /\ transport = [t \in Turns |-> IF t = 1 THEN "local" ELSE "auto"]
    /\ \E d \in CaptureDurations : cap = NewSession(d)
    /\ listen_duration = [t \in Turns |-> IF t = 1 THEN cap.duration ELSE 0]
    /\ result = [t \in Turns |-> NoResult]
    /\ raised = [t \in Turns |-> FALSE]
    /\ phases = [t \in Turns |->
                   IF t = 1 THEN <<"acquire", "resolve", "speak", "cue_listening">> ELSE << >>]
    /\ timings = [t \in Turns |-> IF t = 1 THEN {"tts_total"} ELSE {}]
    /\ audio_data = [t \in Turns |-> -1]
    /\ tts_success = [t \in Turns |-> IF t = 1 THEN "ok" ELSE "none"]
    /\ heard = [t \in Turns |-> NotHeard]
    /\ audio_operation_lock = LockTake(LockInit)
    /\ startup_initialized = TRUE
    /\ service_processes = {}
    /\ startup_runs = [body |-> 1, popen |-> 0]
    /\ auto_start_kokoro = FALSE
    /\ user_settings = FirstSettings
    /\ environ = ImportedEnviron
    /\ config = DefaultConfig
    /\ resolution = NoResolution
    /\ ToolInit

TurnVars ==
    << pc, cue_failed, wait_for_response, transport, listen_duration, result, raised, phases, timings,
       audio_data, tts_success, heard, audio_operation_lock, startup_initialized,
       service_processes, startup_runs, auto_start_kokoro, config, resolution, CallVars >>

\* the input stream is opened, or opening it fails
OpenStream ==
    /\ cap.state = "opening"
    /\ \E opened \in BOOLEAN : cap' = OpenStreamOp(cap, opened)
    /\ UNCHANGED << TurnVars, user_settings, environ, persisted >>

\* one chunk is read and examined
ReadChunk ==
    /\ cap.state = "loop"
    /\ \E ev \in StreamEvents :
          cap' = ReadChunkOp(cap, ev.read_ok, ev.overflowed, ev.rms,
                             (cap.total_recorded + 1) * TicksPerChunk + ev.jitter)
    /\ UNCHANGED << TurnVars, user_settings, environ, persisted >>

\* set_silence_timeout(timeout) is called before the capture starts
SetSilenceTimeout ==
    /\ cap.state = "opening"
    /\ \E timeout \in SilenceTimeouts :
          IF timeout <= 0 \/ timeout > MaxSilenceTimeout
          THEN UNCHANGED << user_settings, persisted, environ >>
          ELSE /\ user_settings' = Stamp(update_setting(user_settings, "silence_timeout", timeout))
               /\ persisted' = user_settings'
               /\ environ' = apply_to_environment(environ, user_settings')
    /\ UNCHANGED << TurnVars, cap >>

\* the awaited executor call completes with the array record_audio returned
RecordDelivers(t) ==
    /\ pc[t] = "record"
    /\ cap.state = "done"
    /\ audio_data' = [audio_data EXCEPT ![t] = cap.buffer]
    /\ timings' = [timings EXCEPT ![t] = @ \cup {"record"}]
    /\ Goto(t, "cue_finished", <<"record">>)
    /\ UNCHANGED << wait_for_response, transport, listen_duration, tts_success, heard,
                    audio_operation_lock, StartupVars, cap, SettingsVars >>

NextCapture ==
    \/ OpenStream
    \/ ReadChunk
    \/ SetSilenceTimeout
    \/ \E t \in Turns :
          \/ RecordDelivers(t)
          \/ CueFinished(t)
          \/ SpeechToText(t)

SpecCapture == InitCapture /\ [][NextCapture]_vars

\* the chunks read since the last chunk at or above the threshold
TrailingSilence == cap.total_recorded - cap.last_loud

\* C10: once silence has lasted the silence span, capture stops within one
\* chunk: it never goes on after silence_duration + 1 silent chunks in a row,
\* so a capture ended by silence is no longer than speech end + span + one
\* chunk (input silent from the start: span + one chunk at most).
C10_StopsWithinOneChunk ==
    /\ cap.state = "loop" => TrailingSilence <= silence_duration
    /\ cap.stop = "silence" => cap.buffer <= cap.last_loud + silence_duration + 1

\* C11: the ceiling holds whatever the loudness: a chunk is read only while
\* fewer samples than duration * SAMPLE_RATE are recorded, so the returned
\* array is shorter than the duration plus one chunk, and a duration that is
\* zero or negative gives an empty array.
C11_HardCeiling ==
    /\ cap.state = "loop" => cap.total_recorded * TicksPerChunk < cap.duration
    /\ cap.state = "done" =>
          /\ cap.duration > 0 => cap.buffer * TicksPerChunk < cap.duration + TicksPerChunk
          /\ cap.duration <= 0 => cap.buffer = 0
          /\ cap.stop = "ceiling" => cap.buffer * TicksPerChunk >= cap.duration

C11_Witness ==
    /\ cap.stop = "ceiling"
    /\ cap.duration = MaxCaptureChunks * TicksPerChunk
    /\ cap.buffer = MaxCaptureChunks
    /\ cap.last_loud = cap.buffer

\* C12: after a chunk at or above the threshold the silence timer is none;
\* after a chunk below it the timer is set, and it was started at the first
\* chunk after the last loud one; so a capture ended by silence has read only
\* silent chunks since its timer started, at least silence_duration of them
\* after the one that started it.
C12_TimerReset ==
    /\ cap.total_recorded > 0 =>
          IF cap.last_loud = cap.total_recorded
          THEN cap.silence_start = NoTime /\ cap.timer_chunk = 0
          ELSE cap.silence_start # NoTime /\ cap.timer_chunk = cap.last_loud + 1
    /\ cap.total_recorded = 0 => cap.silence_start = NoTime
    /\ cap.stop = "silence" =>
          /\ cap.last_loud < cap.timer_chunk
          /\ cap.total_recorded - cap.timer_chunk >= silence_duration

\* a capture ended by silence that followed at least two chunks of input, the
\* last loud one among them
C12_Witness ==
    /\ cap.stop = "silence"
    /\ cap.last_loud >= 2
    /\ cap.total_recorded = cap.last_loud + silence_duration + 1

\* C13: a capture ended by silence ends when the silence has lasted the saved
\* silence timeout (the chunk that starts the timer, then silence_timeout more
\* chunks, or one more when the clock readings are uneven), whatever value
\* set_silence_timeout has saved.
C13_ConfiguredSilenceTimeout ==
    cap.stop = "silence" =>
        cap.total_recorded - cap.timer_chunk
            \in {user_settings.silence_timeout, user_settings.silence_timeout + 1}

\* C14: a capture whose device cannot be opened, whose read fails or which
\* reads no chunk at all ends with an empty array, and record_audio ends in a
\* return in every case; a read that reports an overflow still appends its
\* chunk and the capture goes on as after any other chunk.
C14_DeviceFailureAndOverflow ==
    /\ [](/\ cap.state \in {"off", "opening", "loop", "done"}
          /\ cap.stop = "error" => (cap.state = "done" /\ cap.buffer = 0)
          /\ (cap.state = "done" /\ cap.total_recorded = 0) => cap.buffer = 0
          /\ (cap.state = "done" /\ cap.stop # "error") => cap.buffer = cap.total_recorded)
    /\ [][(cap.state = "loop" /\ ~cap.overflowed /\ cap'.overflowed) =>
              /\ cap'.total_recorded = cap.total_recorded + 1
              /\ cap'.stop # "error"
              /\ cap'.state = "loop" \/ cap'.buffer = cap'.total_recorded]_vars

C14_Witness ==
    /\ cap.state = "done"
    /\ cap.stop = "error"
    /\ cap.total_recorded = 0
    /\ cap.duration > 0

-----------------------------------------------------------------------------
(* The resolvers applied to requests, with the saved settings changing *)

ProviderArgs == {Null, "openai", "kokoro", "gemini", "elevenlabs"}
VoiceArgs == {Null, "nova", "af_sky"}
ModelArgs == {Null, "tts-1", "gpt-4o-mini-tts"}
InstructionArgs == {Null, "", "cheerful"}
SttProviderArgs == {Null, "whisper-local", "openai-whisper", "local"}

\* the values voice_mcp.config can hold when conversation.py is imported
Configs ==
    { [DefaultConfig EXCEPT !.PREFER_LOCAL = pl, !.ALLOW_EMOTIONS = ae,
                            !.TTS_BASE_URL = url, !.STT_BASE_URL = url] :
        pl \in BOOLEAN, ae \in BOOLEAN, url \in {"openai", "other"} }

InitResolve ==
    /\ pc = [t \in Turns |-> "idle"]
    /\ cue_failed = [t \in Turns |-> {}]
    /\ wait_for_response = [t \in Turns |-> FALSE]
    /\ transport = [t \in Turns |-> "auto"]
    /\ listen_duration = [t \in Turns |-> 0]
    /\ result = [t \in Turns |-> NoResult]
    /\ raised = [t \in Turns |-> FALSE]
    /\ phases = [t \in Turns |-> << >>]
    /\ timings = [t \in Turns |-> {}]
    /\ audio_data = [t \in Turns |-> -1]
    /\ tts_success = [t \in Turns |-> "none"]
    /\ heard = [t \in Turns |-> NotHeard]
    /\ audio_operation_lock = LockInit
    /\ startup_initialized = FALSE
    /\ service_processes = {}
    /\ startup_runs = [body |-> 0, popen |-> 0]
    /\ auto_start_kokoro = FALSE
    /\ cap = NoSession
    /\ user_settings = FirstSettings
    /\ environ = ImportedEnviron
    /\ config \in Configs
    /\ resolution = NoResolution
    /\ ToolInit

ResolveFrame ==
    << pc, cue_failed, wait_for_response, transport, listen_duration, result, raised, phases, timings,
       audio_data, tts_success, heard, audio_operation_lock, startup_initialized,
       service_processes, startup_runs, auto_start_kokoro, cap, config, CallVars >>

\* set_tts_provider(provider), saved
SetTtsProvider ==
    /\ \E provider \in ProviderArgs \ {Null} :
          IF provider \notin {"openai", "kokoro", "gemini"}
          THEN UNCHANGED << user_settings, persisted, environ >>
          ELSE /\ user_settings' = Stamp(update_setting(user_settings, "tts_provider", provider))
               /\ persisted' = user_settings'
               /\ environ' = apply_to_environment(environ, user_settings')
    /\ UNCHANGED << ResolveFrame, resolution >>

\* set_tts_voice(voice), saved
SetTtsVoice ==
    /\ \E voice \in VoiceArgs \ {Null} :
          /\ user_settings' = Stamp(update_setting(user_settings, "tts_voice", voice))
          /\ persisted' = user_settings'
          /\ environ' = apply_to_environment(environ, user_settings')
    /\ UNCHANGED << ResolveFrame, resolution >>

\* converse resolves its synthesis request: validate_emotion_request, then
\* get_tts_config (the request the behaviour observes)
ResolveSynthesis ==
    /\ resolution.kind = "none"
    /\ \E provider \in ProviderArgs, voice \in VoiceArgs, model \in ModelArgs,
          tts_instructions \in InstructionArgs, kokoro_available \in BOOLEAN :
          LET instructions == validate_emotion_request(model, tts_instructions, config)
              answer == get_tts_config(provider, voice, model, instructions,
                                       user_settings, config, kokoro_available)
          IN  resolution' =
                 [kind |-> "tts", provider |-> provider, voice |-> voice, model |-> model,
                  tts_instructions |-> tts_instructions, instructions |-> instructions,
                  available |-> kokoro_available, first |-> answer, last |-> answer,
                  saved_first |-> user_settings, saved_last |-> user_settings,
                  unstyled_raises |->
                      get_tts_config(provider, voice, model, Null,
                                     user_settings, config, kokoro_available).raises]
    /\ UNCHANGED << ResolveFrame, user_settings, environ, persisted >>

\* the same request is resolved once more, with what is saved and reachable now
ResolveSynthesisAgain ==
    /\ resolution.kind = "tts"
    /\ \E kokoro_available \in BOOLEAN :
          resolution' =
             [resolution EXCEPT
                !.available = kokoro_available,
                !.last = get_tts_config(resolution.provider, resolution.voice,
                                        resolution.model, resolution.instructions,
                                        user_settings, config, kokoro_available),
                !.saved_last = user_settings,
                !.unstyled_raises =
                    get_tts_config(resolution.provider, resolution.voice, resolution.model,
                                   Null, user_settings, config, kokoro_available).raises]
    /\ UNCHANGED << ResolveFrame, user_settings, environ, persisted >>

\* get_stt_config(provider) (the request the behaviour observes)
ResolveRecognition ==
    /\ resolution.kind = "none"
    /\ \E provider \in SttProviderArgs, whisper_available \in BOOLEAN :
          resolution' =
             [kind |-> "stt", provider |-> provider, available |-> whisper_available,
              last |-> get_stt_config(provider, config, whisper_available)]
    /\ UNCHANGED << ResolveFrame, user_settings, environ, persisted >>

NextResolve ==
    \/ SetTtsProvider
    \/ SetTtsVoice
    \/ ResolveSynthesis
    \/ ResolveSynthesisAgain
    \/ ResolveRecognition

SpecResolve == InitResolve /\ [][NextResolve]_vars

\* a synthesis request has been resolved / a recognition request has
IsTts == resolution.kind = "tts"
IsStt == resolution.kind = "stt"

\* C15: when the caller names one of the synthesis backends of the registry,
\* get_tts_config returns a config for that backend, whatever is saved and
\* whichever of voice, model and instructions are given.
C15_ExplicitProviderWins ==
    (IsTts /\ resolution.provider \in {"openai", "kokoro", "gemini"}) =>
        /\ ~resolution.last.raises
        /\ resolution.last.value.provider = resolution.provider

\* C16: with no provider given, PREFER_LOCAL set and the local backend
\* reachable, get_tts_config answers kokoro and get_stt_config answers
\* whisper-local.
C16_PreferLocal ==
    /\ (IsTts /\ resolution.provider = Null /\ config.PREFER_LOCAL /\ resolution.available) =>
          /\ ~resolution.last.raises
          /\ resolution.last.value.provider = "kokoro"
    /\ (IsStt /\ resolution.provider = Null /\ config.PREFER_LOCAL /\ resolution.available) =>
          resolution.last.value.provider = "whisper-local"

\* C17: with no provider given and a voice of the Kokoro catalog,
\* get_tts_config answers kokoro, whatever is saved, preferred or configured.
C17_VoiceInference ==
    (IsTts /\ resolution.provider = Null /\ resolution.voice \in KokoroPrefixed) =>
        /\ ~resolution.last.raises
        /\ resolution.last.value.provider = "kokoro"

\* a config with every entry filled in, for the registry entry p
CompleteFor(value, p) ==
    /\ value.provider = p
    /\ value.base_url = PROVIDERS[p].base_url
    /\ Truthy(value.client_key)
    /\ Truthy(value.model)

\* C18: a provider id that is no registry key makes get_tts_config answer the
\* complete openai config and get_stt_config the complete openai-whisper
\* config; neither raises.
C18_UnknownProviderFallsBack ==
    (resolution.kind # "none" /\ resolution.provider # Null
        /\ resolution.provider \notin DOMAIN PROVIDERS) =>
        /\ ~resolution.last.raises
        /\ IsTts => /\ CompleteFor(resolution.last.value, "openai")
                    /\ resolution.last.value.client_key = "tts_openai"
                    /\ Truthy(resolution.last.value.voice)
        /\ IsStt => /\ CompleteFor(resolution.last.value, "openai-whisper")
                    /\ resolution.last.value.client_key = "stt"

C18_Witness ==
    /\ IsTts
    /\ resolution.provider = "elevenlabs"
    /\ resolution.voice = Null /\ resolution.model = Null
    /\ resolution.saved_last.tts_provider = "kokoro"
    /\ ~resolution.last.raises

FullyExplicit ==
    /\ resolution.provider # Null
    /\ resolution.voice # Null
    /\ resolution.model # Null
    /\ resolution.instructions # Null

\* C20: a fully explicit request resolved again gets the same config as the
\* first time, whatever was saved and whatever was reachable at either call.
C20_ExplicitIdempotent ==
    (IsTts /\ FullyExplicit) =>
        /\ ~resolution.first.raises
        /\ resolution.last = resolution.first

\* resolved twice with both saved preferences changed in between
C20_Witness ==
    /\ IsTts /\ FullyExplicit
    /\ resolution.saved_first.tts_provider # resolution.saved_last.tts_provider
    /\ resolution.saved_first.tts_voice # resolution.saved_last.tts_voice
    /\ resolution.provider # resolution.saved_last.tts_provider
    /\ resolution.voice # resolution.saved_last.tts_voice

\* C21: with no provider given, PREFER_LOCAL set and the local backend not
\* reachable, get_tts_config answers openai and get_stt_config answers
\* openai-whisper, and neither raises.
C21_ProbeFailureFallsThrough ==
    /\ (IsTts /\ resolution.provider = Null /\ config.PREFER_LOCAL /\ ~resolution.available) =>
          /\ ~resolution.last.raises
          /\ resolution.last.value.provider = "openai"
    /\ (IsStt /\ resolution.provider = Null /\ config.PREFER_LOCAL /\ ~resolution.available) =>
          /\ ~resolution.last.raises
          /\ resolution.last.value.provider = "openai-whisper"

-----------------------------------------------------------------------------
(* is_provider_available, request by request *)

\* what a GET can come back with: no response at all (connection refused,
\* timeout, any exception of the client) or the status code of the response
NoResponse == 0
StatusCodes == {NoResponse, 200, 204, 404, 500}

\* the ids is_provider_available is called with
ProbeIds == {"kokoro", "whisper-local", "openai", "elevenlabs"}

\* the three endpoints, in the order of the code
ProbePaths == << "/models", "/health", "" >>

\* response.status_code == 200 on {base_url}/models
ModelsQualifies(status) == status = 200

\* response.status_code == 200 on {base_url}/health
HealthQualifies(status) == status = 200

\* the bare endpoint must answer 200 as well
BaseQualifiesOk(status) == status = 200

\* response.status_code < 500 on {base_url}
BaseQualifies(status) == status # NoResponse /\ status < 500

\* the function has returned
ProbeDone(p, value) == [p EXCEPT !.state = "done", !.result = value]

\* one GET: the request is issued; a qualifying response returns True, any
\* other outcome (the bare except included) goes on to the next attempt
TryEndpoint(p, path, status, qualifies, next) ==
    LET q == [p EXCEPT !.requests = Append(@, path), !.statuses = Append(@, status)]
    IN  IF qualifies THEN ProbeDone(q, TRUE)
        ELSE IF next = "done" THEN ProbeDone(q, FALSE)
        ELSE [q EXCEPT !.state = next]

InitProbe ==
    /\ pc = [t \in Turns |-> "idle"]
    /\ cue_failed = [t \in Turns |-> {}]
    /\ wait_for_response = [t \in Turns |-> FALSE]
    /\ transport = [t \in Turns |-> "auto"]
    /\ listen_duration = [t \in Turns |-> 0]
    /\ result = [t \in Turns |-> NoResult]
    /\ raised = [t \in Turns |-> FALSE]
    /\ phases = [t \in Turns |-> << >>]
    /\ timings = [t \in Turns |-> {}]
    /\ audio_data = [t \in Turns |-> -1]
    /\ tts_success = [t \in Turns |-> "none"]
    /\ heard = [t \in Turns |-> NotHeard]
    /\ audio_operation_lock = LockInit
    /\ startup_initialized = FALSE
    /\ service_processes = {}
    /\ startup_runs = [body |-> 0, popen |-> 0]
    /\ auto_start_kokoro = FALSE
    /\ cap = NoSession
    /\ user_settings = FirstSettings
    /\ environ = ImportedEnviron
    /\ config = DefaultConfig
    /\ resolution = NoResolution
    /\ ToolInit

ProbeFrame ==
    << pc, cue_failed, wait_for_response, transport, listen_duration, result, raised, phases, timings,
       audio_data, tts_success, heard, audio_operation_lock, startup_initialized,
       service_processes, startup_runs, auto_start_kokoro, cap, user_settings, environ,
       config, resolution, synth, wav, persisted, reply, writable, stt_call >>

\* is_provider_available(provider_id) up to its first request: an id the
\* registry does not know is not available, a hosted provider is assumed
\* available, and a client that cannot be created ends the call with False
StartProbe ==
    /\ probe.state = "idle"
    /\ \E provider_id \in ProbeIds, client_ok \in BOOLEAN :
          LET p == [state |-> "models", provider_id |-> provider_id, requests |-> << >>,
                    statuses |-> << >>, result |-> FALSE]
          IN  probe' =
                 IF provider_id \notin DOMAIN PROVIDERS THEN ProbeDone(p, FALSE)
                 ELSE IF ~PROVIDERS[provider_id].local THEN ProbeDone(p, TRUE)
                 ELSE IF ~client_ok THEN ProbeDone(p, FALSE)
                 ELSE p
    /\ UNCHANGED ProbeFrame

GetModels ==
    /\ probe.state = "models"
    /\ \E status \in StatusCodes :
          probe' = TryEndpoint(probe, ProbePaths[1], status, ModelsQualifies(status), "health")
    /\ UNCHANGED ProbeFrame

GetHealth ==
    /\ probe.state = "health"
    /\ \E status \in StatusCodes :
          probe' = TryEndpoint(probe, ProbePaths[2], status, HealthQualifies(status), "base")
    /\ UNCHANGED ProbeFrame

GetBase ==
    /\ probe.state = "base"
    /\ \E status \in StatusCodes :
          probe' = TryEndpoint(probe, ProbePaths[3], status, BaseQualifies(status), "done")
    /\ UNCHANGED ProbeFrame

NextProbe == StartProbe \/ GetModels \/ GetHealth \/ GetBase

SpecProbe == InitProbe /\ [][NextProbe]_vars

\* the probe of a local backend has returned after issuing requests
ProbedLocal == probe.state = "done" /\ Len(probe.requests) > 0

\* the requests issued so far are the first endpoints of the list, in order
InProbeOrder ==
    probe.state # "idle" =>
        /\ Len(probe.requests) <= 3
        /\ probe.requests = SubSeq(ProbePaths, 1, Len(probe.requests))
        /\ probe.result \in BOOLEAN

-----------------------------------------------------------------------------
(* GeminiTTSProvider: the descriptor parser and the header synthesizer *)

\* text is a sequence of characters, one string each ("sp" is a space)
DigitChars == << "0", "1", "2", "3", "4", "5", "6", "7", "8", "9" >>

IsDigit(c) == \E d \in 1..10 : DigitChars[d] = c

DigitValue(c) == (CHOOSE d \in 1..10 : DigitChars[d] = c) - 1

\* str(n) of an integer
RECURSIVE str(_)
str(n) ==
    IF n < 0 THEN << "-" >> \o str(0 - n)
    ELSE IF n < 10 THEN << DigitChars[n + 1] >>
    ELSE Append(str(n \div 10), DigitChars[(n % 10) + 1])

RECURSIVE DigitsValue(_)
DigitsValue(ds) ==
    IF ds = << >> THEN 0
    ELSE DigitsValue(SubSeq(ds, 1, Len(ds) - 1)) * 10 + DigitValue(ds[Len(ds)])

ValueError == [ok |-> FALSE, value |-> 0]

\* int(s) of a string: surrounding whitespace, an optional sign, then decimal
\* digits only; anything else is a ValueError
int(s) ==
    LET t == strip(s)
        signed == t # << >> /\ Head(t) \in {"+", "-"}
        ds == IF signed THEN Tail(t) ELSE t
    IN  IF ds = << >> \/ \E i \in 1..Len(ds) : ~IsDigit(ds[i]) THEN ValueError
        ELSE [ok |-> TRUE,
              value |-> IF signed /\ Head(t) = "-" THEN 0 - DigitsValue(ds)
                        ELSE DigitsValue(ds)]

\* the position of the first occurrence of the character sep in s, 0 if none
find(s, sep) ==
    IF \E i \in 1..Len(s) : s[i] = sep
    THEN CHOOSE i \in 1..Len(s) : s[i] = sep /\ \A j \in 1..(i - 1) : s[j] # sep
    ELSE 0

\* s.split(sep)
RECURSIVE split(_, _)
split(s, sep) ==
    LET i == find(s, sep)
    IN  IF i = 0 THEN << s >>
        ELSE << SubSeq(s, 1, i - 1) >> \o split(SubSeq(s, i + 1, Len(s)), sep)

\* s.split(sep, 1)[1]: the text after the first sep; an IndexError when
\* there is no sep
AfterFirst(s, sep) ==
    LET i == find(s, sep)
    IN  IF i = 0 THEN [ok |-> FALSE, text |-> << >>]
        ELSE [ok |-> TRUE, text |-> SubSeq(s, i + 1, Len(s))]

\* the upper-case letters of the descriptors
LowerCase == [c \in {"A", "E", "L", "R", "T"} |->
                 CASE c = "A" -> "a" [] c = "E" -> "e" [] c = "L" -> "l"
                   [] c = "R" -> "r" [] OTHER -> "t"]

\* s.lower()
lower(s) == [i \in 1..Len(s) |-> IF s[i] \in DOMAIN LowerCase THEN LowerCase[s[i]] ELSE s[i]]

RatePrefix == << "r", "a", "t", "e", "=" >>
BitsPrefix == << "a", "u", "d", "i", "o", "/", "L" >>

\* int(param.split(sep, 1)[1]) inside try / except (ValueError, IndexError)
IntAfter(param, sep) ==
    LET rest == AfterFirst(param, sep)
    IN  IF rest.ok THEN int(rest.text) ELSE ValueError

\* the body of the loop over the parts of the descriptor
ParseParam(parameters, raw) ==
    LET param == strip(raw)
    IN  IF startswith(lower(param), RatePrefix)
        THEN (IF IntAfter(param, "=").ok
              THEN [parameters EXCEPT !.rate = IntAfter(param, "=").value]
              ELSE parameters)
        ELSE IF startswith(param, BitsPrefix)
        THEN (IF IntAfter(param, "L").ok
              THEN [parameters EXCEPT !.bits_per_sample = IntAfter(param, "L").value]
              ELSE parameters)
        ELSE parameters

RECURSIVE ParseParams(_, _)
ParseParams(parameters, parts) ==
    IF parts = << >> THEN parameters
    ELSE ParseParams(ParseParam(parameters, Head(parts)), Tail(parts))

\* the descriptor is split at commas
parse_audio_mime_type_comma(mime_type) ==
    ParseParams([bits_per_sample |-> 16, rate |-> 24000], split(mime_type, ","))

\* GeminiTTSProvider._parse_audio_mime_type(mime_type)
parse_audio_mime_type(mime_type) ==
    ParseParams([bits_per_sample |-> 16, rate |-> 24000], split(mime_type, ";"))

\* what the descriptor says about one parameter: nothing, an integer, or a
\* text that is no integer
Absent == [kind |-> "absent", value |-> 0, text |-> << >>]
Integer(n) == [kind |-> "int", value |-> n, text |-> str(n)]
Malformed(text) == [kind |-> "malformed", value |-> 0, text |-> text]

BigRate == 1073741824

RateValues == {0 - 1, 1, 8000, 44100, BigRate}
BitsValues == {8, 16, 24, 32, 12, 70000}
NoIntegers == { << >>, << "a", "b", "c" >>, << "1", "6", ".", "5" >> }

RateOptions == {Absent} \cup {Integer(n) : n \in RateValues} \cup {Malformed(t) : t \in NoIntegers}
BitsOptions == {Absent} \cup {Integer(n) : n \in BitsValues} \cup {Malformed(t) : t \in NoIntegers}

\* how the descriptor is written: as 'audio/L<bits>;rate=<rate>', with blanks
\* around the parts, or with the parameter name in upper case
Styles == {"plain", "spaced", "upper"}

\* the descriptor 'audio/L<bits>;rate=<rate>' for what is said about the two
\* parameters; with nothing said about the bits the type is 'audio/pcm'
FormatMime(bits, rate, style) ==
    LET type == IF bits.kind = "absent" THEN << "a", "u", "d", "i", "o", "/", "p", "c", "m" >> ELSE BitsPrefix \o bits.text
        name == IF style = "upper" THEN << "R", "A", "T", "E", "=" >> ELSE RatePrefix
        blank == IF style = "spaced" THEN << "sp" >> ELSE << >>
    IN  IF rate.kind = "absent" THEN blank \o type \o blank
        ELSE blank \o type \o blank \o << ";" >> \o blank \o name \o rate.text \o blank

\* the raw sample payloads
MaxPayloadLen == 2
SampleBytes == {0, 255}
Payloads == UNION { [1..n -> SampleBytes] : n \in 0..MaxPayloadLen }

\* a number of up to 32 bits and more, as two halves: hi * 65536 + lo
Wide(n) == [hi |-> n \div 65536, lo |-> n % 65536]

\* a * b for a multiplier b below 2^15
Times(a, b) ==
    [hi |-> (a \div 65536) * b + ((a % 65536) * b) \div 65536,
     lo |-> ((a % 65536) * b) % 65536]

\* struct format I: an unsigned 32-bit field; H: an unsigned 16-bit field
FitsI(w) == w.hi >= 0 /\ w.hi <= 65535
FitsH(n) == n >= 0 /\ n <= 65535

\* the little-endian bytes of the fields
pack_I(w) == << w.lo % 256, w.lo \div 256, w.hi % 256, w.hi \div 256 >>
pack_H(n) == << n % 256, n \div 256 >>

\* b"RIFF", b"WAVE", b"fmt ", b"data"
RIFF == << 82, 73, 70, 70 >>
WAVE == << 87, 65, 86, 69 >>
fmt == << 102, 109, 116, 32 >>
data == << 100, 97, 116, 97 >>

\* the size field counts the whole header
chunk_size_whole(data_size) == 44 + data_size

\* chunk_size = 36 + data_size
chunk_size(data_size) == 36 + data_size

\* GeminiTTSProvider._convert_to_wav(audio_data, mime_type); struct.pack
\* raises struct.error for a value that does not fit its field
convert_to_wav(audio_bytes, mime_type) ==
    LET parameters == parse_audio_mime_type(mime_type)
        bits_per_sample == parameters.bits_per_sample
        sample_rate == parameters.rate
        num_channels == 1
        data_size == Len(audio_bytes)
        bytes_per_sample == bits_per_sample \div 8
        block_align == num_channels * bytes_per_sample
        byte_rate == Times(sample_rate, block_align)
        struct_error ==
            \/ ~FitsI(Wide(chunk_size(data_size)))
            \/ ~FitsH(num_channels)
            \/ ~FitsI(Wide(sample_rate))
            \/ ~FitsI(byte_rate)
            \/ ~FitsH(block_align)
            \/ ~FitsH(bits_per_sample)
            \/ ~FitsI(Wide(data_size))
        header ==
            RIFF \o pack_I(Wide(chunk_size(data_size))) \o WAVE \o fmt
                 \o pack_I(Wide(16)) \o pack_H(1) \o pack_H(num_channels)
                 \o pack_I(Wide(sample_rate)) \o pack_I(byte_rate)
                 \o pack_H(block_align) \o pack_H(bits_per_sample)
                 \o data \o pack_I(Wide(data_size))
    IN  IF struct_error THEN Raised ELSE Returned(header \o audio_bytes)

InitWav ==
    /\ pc = [t \in Turns |-> "idle"]
    /\ cue_failed = [t \in Turns |-> {}]
    /\ wait_for_response = [t \in Turns |-> FALSE]
    /\ transport = [t \in Turns |-> "auto"]
    /\ listen_duration = [t \in Turns |-> 0]
    /\ result = [t \in Turns |-> NoResult]
    /\ raised = [t \in Turns |-> FALSE]
    /\ phases = [t \in Turns |-> << >>]
    /\ timings = [t \in Turns |-> {}]
    /\ audio_data = [t \in Turns |-> -1]
    /\ tts_success = [t \in Turns |-> "none"]
    /\ heard = [t \in Turns |-> NotHeard]
    /\ audio_operation_lock = LockInit
    /\ startup_initialized = FALSE
    /\ service_processes = {}
    /\ startup_runs = [body |-> 0, popen |-> 0]
    /\ auto_start_kokoro = FALSE
    /\ cap = NoSession
    /\ user_settings = FirstSettings
    /\ environ = ImportedEnviron
    /\ config = DefaultConfig
    /\ resolution = NoResolution
    /\ probe = NoProbe
    /\ synth = NoSynthesis
    /\ persisted = FirstSettings
    /\ reply = NoReply
    /\ writable = TRUE
    /\ stt_call = NoTranscription
    /\ \E bits \in BitsOptions, rate \in RateOptions, style \in Styles, payload \in Payloads :
          wav = [state |-> "input", bits |-> bits, rate |-> rate, style |-> style,
                 mime_type |-> FormatMime(bits, rate, style), audio_data |-> payload]

WavFrame ==
    << pc, cue_failed, wait_for_response, transport, listen_duration, result, raised, phases, timings,
       audio_data, tts_success, heard, audio_operation_lock, startup_initialized,
       service_processes, startup_runs, auto_start_kokoro, cap, user_settings, environ,
       config, resolution, probe, synth, persisted, reply, writable, stt_call >>

\* _parse_audio_mime_type is applied to the descriptor
ParseAudioMimeType ==
    /\ wav.state = "input"
    /\ wav' = [state |-> "parsed", bits |-> wav.bits, rate |-> wav.rate, style |-> wav.style,
               mime_type |-> wav.mime_type, audio_data |-> wav.audio_data,
               parameters |-> parse_audio_mime_type(wav.mime_type)]
    /\ UNCHANGED WavFrame

\* _convert_to_wav is applied to the payload and the descriptor
ConvertToWav ==
    /\ wav.state \in {"input", "parsed"}
    /\ wav' = [state |-> "converted", bits |-> wav.bits, rate |-> wav.rate,
               style |-> wav.style, mime_type |-> wav.mime_type,
               audio_data |-> wav.audio_data,
               parameters |-> parse_audio_mime_type(wav.mime_type),
               out |-> convert_to_wav(wav.audio_data, wav.mime_type)]
    /\ UNCHANGED WavFrame

NextWav == ParseAudioMimeType \/ ConvertToWav

SpecWav == InitWav /\ [][NextWav]_vars

\* the rate and the bit depth the descriptor stands for
GivenRate == IF wav.rate.kind = "int" THEN wav.rate.value ELSE 24000
GivenBits == IF wav.bits.kind = "int" THEN wav.bits.value ELSE 16

\* the fields of the header, read back from its bytes (offsets from 0)
U16At(bytes, offset) == bytes[offset + 1] + 256 * bytes[offset + 2]
U32At(bytes, offset) == [hi |-> U16At(bytes, offset + 2), lo |-> U16At(bytes, offset)]

\* the field w holds the product a * b (by dividing it by b again)
IsProduct(w, a, b) ==
    IF b = 0 \/ a = 0 THEN w.hi = 0 /\ w.lo = 0
    ELSE LET upper == (w.hi % b) * 65536 + w.lo
         IN  /\ upper % b = 0
             /\ (w.hi \div b) * 65536 + upper \div b = a

\* 44 header bytes, then the payload, with the four fields as specified
HeaderAsSpecified(bytes) ==
    /\ Len(bytes) = 44 + Len(wav.audio_data)
    /\ SubSeq(bytes, 45, Len(bytes)) = wav.audio_data
    /\ U32At(bytes, 4) = [hi |-> 0, lo |-> 36 + Len(wav.audio_data)]
    /\ U32At(bytes, 40) = [hi |-> 0, lo |-> Len(wav.audio_data)]
    /\ U16At(bytes, 32) = GivenBits \div 8
    /\ IsProduct(U32At(bytes, 28), GivenRate, GivenBits \div 8)

MaxFactor(b) == 2 * (2147483647 \div b) + (2 * (2147483647 % b) + 1) \div b

\* every value fits its header field
FieldsFit ==
    /\ GivenRate >= 0
    /\ GivenBits >= 0 /\ GivenBits <= 65535
    /\ GivenBits \div 8 >= 2 => GivenRate <= MaxFactor(GivenBits \div 8)

C24_MimeRoundTrip ==
    wav.state \in {"parsed", "converted"} =>
        /\ (wav.rate.kind = "int" /\ wav.rate.value > 0) =>
              wav.parameters.rate = wav.rate.value
        /\ (wav.bits.kind = "int" /\ wav.bits.value \in {8, 16, 24, 32}) =>
              wav.parameters.bits_per_sample = wav.bits.value
        /\ wav.rate.kind # "int" => wav.parameters.rate = 24000
        /\ wav.bits.kind # "int" => wav.parameters.bits_per_sample = 16

\* 'audio/L24;rate=44100' parsed back
C24_Witness ==
    /\ wav.state = "parsed"
    /\ wav.style = "plain"
    /\ wav.bits = Integer(24) /\ wav.rate = Integer(44100)
    /\ wav.parameters = [bits_per_sample |-> 24, rate |-> 44100]

-----------------------------------------------------------------------------
(* GeminiTTSProvider.generate_speech, chunk by chunk of the response stream *)

\* the descriptor generate_speech hands to _convert_to_wav
GeneratedMime == << "a", "u", "d", "i", "o", "/", "L", "1", "6", ";", "r", "a", "t", "e", "=", "2", "4", "0", "0", "0" >>

\* what a chunk of the stream can be: no candidates, no content, no parts,
\* a first part without inline data, inline data without bytes, or audio
ChunkKinds == {"no_candidates", "no_content", "no_parts", "no_inline_data", "empty_data"}

MaxStreamChunks == 3

\* the audio bytes a chunk can carry
SegmentData == { << 1 >>, << 2, 3 >> }

StreamChunks ==
    { [kind |-> k, data |-> << >>] : k \in ChunkKinds }
        \cup { [kind |-> "audio", data |-> d] : d \in SegmentData }

\* a chunk with audio is put in front of the ones collected before
CollectChunkFirst(audio_chunks, chunk) ==
    IF chunk.kind \in {"no_candidates", "no_content", "no_parts"} THEN audio_chunks
    ELSE IF chunk.kind # "no_inline_data" /\ chunk.data # << >>
    THEN << chunk.data >> \o audio_chunks
    ELSE audio_chunks

\* the body of the loop over the stream: chunks without candidates, content
\* or parts are skipped, and the data of the first part is kept when it has
\* inline data that is not empty
CollectChunk(audio_chunks, chunk) ==
    IF chunk.kind \in {"no_candidates", "no_content", "no_parts"} THEN audio_chunks
    ELSE IF chunk.kind # "no_inline_data" /\ chunk.data # << >>
    THEN Append(audio_chunks, chunk.data)
    ELSE audio_chunks

\* b''.join(chunks)
RECURSIVE join(_)
join(chunks) == IF chunks = << >> THEN << >> ELSE Head(chunks) \o join(Tail(chunks))

InitSynth ==
    /\ pc = [t \in Turns |-> "idle"]
    /\ cue_failed = [t \in Turns |-> {}]
    /\ wait_for_response = [t \in Turns |-> FALSE]
    /\ transport = [t \in Turns |-> "auto"]
    /\ listen_duration = [t \in Turns |-> 0]
    /\ result = [t \in Turns |-> NoResult]
    /\ raised = [t \in Turns |-> FALSE]
    /\ phases = [t \in Turns |-> << >>]
    /\ timings = [t \in Turns |-> {}]
    /\ audio_data = [t \in Turns |-> -1]
    /\ tts_success = [t \in Turns |-> "none"]
    /\ heard = [t \in Turns |-> NotHeard]
    /\ audio_operation_lock = LockInit
    /\ startup_initialized = FALSE
    /\ service_processes = {}
    /\ startup_runs = [body |-> 0, popen |-> 0]
    /\ auto_start_kokoro = FALSE
    /\ cap = NoSession
    /\ user_settings = FirstSettings
    /\ environ = ImportedEnviron
    /\ config = DefaultConfig
    /\ resolution = NoResolution
    /\ ToolInit

SynthFrame ==
    << pc, cue_failed, wait_for_response, transport, listen_duration, result, raised, phases, timings,
       audio_data, tts_success, heard, audio_operation_lock, startup_initialized,
       service_processes, startup_runs, auto_start_kokoro, cap, user_settings, environ,
       config, resolution, probe, wav, persisted, reply, writable, stt_call >>

\* generate_speech is called and the request is sent
StartGeneration ==
    /\ synth.state = "idle"
    /\ synth' = [state |-> "streaming", received |-> << >>, audio_chunks |-> << >>,
                 files |-> << >>, error |-> "none"]
    /\ UNCHANGED SynthFrame

\* the stream yields one more chunk
ReceiveChunk ==
    /\ synth.state = "streaming"
    /\ Len(synth.received) < MaxStreamChunks
    /\ \E chunk \in StreamChunks :
          synth' = [synth EXCEPT !.received = Append(@, chunk),
                                 !.audio_chunks = CollectChunk(@, chunk)]
    /\ UNCHANGED SynthFrame

\* the stream breaks off with an exception of the client, which is logged
\* and raised again
StreamFails ==
    /\ synth.state = "streaming"
    /\ synth' = [synth EXCEPT !.state = "raised", !.error = "stream"]
    /\ UNCHANGED SynthFrame

\* the stream ends: with nothing collected the call raises before any file
\* is made; otherwise the temporary file is created (or creating it fails),
\* the converted audio is written and the path is returned
StreamEnds ==
    /\ synth.state = "streaming"
    /\ \E tempfile_ok \in BOOLEAN :
          LET combined_audio == join(synth.audio_chunks)
              wav_data == convert_to_wav(combined_audio, GeneratedMime)
          IN  synth' =
                 IF synth.audio_chunks = << >>
                 THEN [synth EXCEPT !.state = "raised",
                                    !.error = "No audio data received from Gemini API"]
                 ELSE IF ~tempfile_ok
                 THEN [synth EXCEPT !.state = "raised", !.error = "tempfile"]
                 ELSE IF wav_data.raises
                 THEN [synth EXCEPT !.state = "raised", !.error = "struct",
                                    !.files = Append(@, << >>)]
                 ELSE [synth EXCEPT !.state = "returned",
                                    !.files = Append(@, wav_data.value)]
    /\ UNCHANGED SynthFrame

NextSynth == StartGeneration \/ ReceiveChunk \/ StreamFails \/ StreamEnds

SpecSynth == InitSynth /\ [][NextSynth]_vars

\* the audio bytes of the chunks the stream delivered, in arrival order
RECURSIVE Delivered(_)
Delivered(received) ==
    IF received = << >> THEN << >>
    ELSE (IF Head(received).kind = "audio" THEN Head(received).data ELSE << >>)
             \o Delivered(Tail(received))

\* the stream has ended by itself
StreamCompleted == synth.state \in {"raised", "returned"} /\ synth.error # "stream"

-----------------------------------------------------------------------------
(* The settings manager and the settings tools *)

\* get_setting(key): getattr(settings, key, None)
get_setting(settings, key) == IF key \in DOMAIN settings THEN settings[key] ELSE Null

\* update_setting(key, value) on settings_manager: False for a key that is
\* no attribute; otherwise the record is changed, stamped and written (a
\* write that fails is only logged), the environment is applied and the
\* answer is True
UpdateSetting(key, value, written) ==
    IF key \notin DOMAIN user_settings
    THEN UNCHANGED << user_settings, persisted, environ >>
    ELSE /\ user_settings' = Stamp(update_setting(user_settings, key, value))
         /\ persisted' = IF written THEN user_settings' ELSE persisted
         /\ environ' = apply_to_environment(environ, user_settings')

\* what update_setting(key, value) returns
UpdateSucceeds(key) == key \in DOMAIN user_settings

\* the calls of update_setting the model makes
UpdatePairs ==
    { << "tts_voice", "af_sky" >>, << "tts_voice", "nova" >>,
      << "tts_model", "tts-1-hd" >>, << "stt_provider", "local" >>,
      << "stt_provider", "openai" >>, << "last_updated", "2020-01-01" >>,
      << "gemini_model", "gemini-2.5-pro-preview-tts" >>, << "volume", "loud" >> }

\* the arguments of set_tts_provider and of set_gemini_model
TtsProviderArgs == {"openai", "kokoro", "gemini", "elevenlabs"}
GeminiModelArgs == {"flash", "pro", "gemini-2.5-pro-preview-tts", "ultra"}

\* model_mapping of set_gemini_model and the full name an argument stands for
model_mapping ==
    [m \in {"flash", "pro"} |->
        IF m = "flash" THEN "gemini-2.5-flash-preview-tts" ELSE "gemini-2.5-pro-preview-tts"]

model_names == { model_mapping[m] : m \in DOMAIN model_mapping }

full_model(model) == IF model \in DOMAIN model_mapping THEN model_mapping[model] ELSE model

\* the lines get_voice_settings writes for the attributes of VoiceSettings
Display(settings) ==
    [key \in DOMAIN VoiceSettings |-> settings[key]]

\* the settings file does not exist
NoFile == [exists |-> FALSE]

\* load_settings of a manager that holds no record yet: the record of the
\* file, or the defaults when there is no file
LoadFile(file) == IF file = NoFile THEN FirstSettings ELSE file

\* ... and the file afterwards: the defaults are saved when there was none
\* (a write that fails is only logged)
FileAfterLoad(file, written) == IF file = NoFile /\ written THEN FirstSettings ELSE file

InitSettings ==
    /\ pc = [t \in Turns |-> "idle"]
    /\ cue_failed = [t \in Turns |-> {}]
    /\ wait_for_response = [t \in Turns |-> FALSE]
    /\ transport = [t \in Turns |-> "auto"]
    /\ listen_duration = [t \in Turns |-> 0]
    /\ result = [t \in Turns |-> NoResult]
    /\ raised = [t \in Turns |-> FALSE]
    /\ phases = [t \in Turns |-> << >>]
    /\ timings = [t \in Turns |-> {}]
    /\ audio_data = [t \in Turns |-> -1]
    /\ tts_success = [t \in Turns |-> "none"]
    /\ heard = [t \in Turns |-> NotHeard]
    /\ audio_operation_lock = LockInit
    /\ startup_initialized = FALSE
    /\ service_processes = {}
    /\ startup_runs = [body |-> 0, popen |-> 0]
    /\ auto_start_kokoro = FALSE
    /\ cap = NoSession
    /\ user_settings = FirstSettings
    /\ environ = ImportedEnviron
    /\ config = DefaultConfig
    /\ resolution = NoResolution
    /\ probe = NoProbe
    /\ synth = NoSynthesis
    /\ wav = NoWav
    /\ writable \in BOOLEAN
    /\ persisted \in {FirstSettings, FileAfterLoad(NoFile, writable)}
    /\ reply = NoReply
    /\ stt_call = NoTranscription

SettingsFrame ==
    << pc, cue_failed, wait_for_response, transport, listen_duration, result, raised, phases, timings,
       audio_data, tts_success, heard, audio_operation_lock, startup_initialized,
       service_processes, startup_runs, auto_start_kokoro, cap, config, resolution,
       probe, synth, wav, writable, stt_call >>

\* settings_manager.update_setting(key, value)
CallUpdateSetting ==
    /\ \E pair \in UpdatePairs :
          /\ UpdateSetting(pair[1], pair[2], writable)
          /\ reply' = [tool |-> "update_setting", key |-> pair[1], value |-> pair[2],
                       raises |-> FALSE, returned |-> UpdateSucceeds(pair[1]),
                       set_provider |-> reply.set_provider]
    /\ UNCHANGED SettingsFrame

\* the tool set_tts_provider(provider)
CallSetTtsProvider ==
    /\ \E provider \in TtsProviderArgs :
          IF provider \notin {"openai", "kokoro", "gemini"}
          THEN /\ UNCHANGED << user_settings, persisted, environ >>
               /\ reply' = [tool |-> "set_tts_provider", provider |-> provider,
                            raises |-> FALSE, returned |-> "invalid",
                            set_provider |-> reply.set_provider]
          ELSE /\ UpdateSetting("tts_provider", provider, writable)
               /\ reply' = [tool |-> "set_tts_provider", provider |-> provider,
                            raises |-> FALSE,
                            returned |-> IF UpdateSucceeds("tts_provider") THEN "set"
                                         ELSE "failed",
                            set_provider |-> IF UpdateSucceeds("tts_provider") THEN provider
                                             ELSE reply.set_provider]
    /\ UNCHANGED SettingsFrame

\* the tool set_gemini_model(model)
CallSetGeminiModel ==
    /\ \E model \in GeminiModelArgs :
          IF model \notin DOMAIN model_mapping /\ model \notin model_names
          THEN /\ UNCHANGED << user_settings, persisted, environ >>
               /\ reply' = [tool |-> "set_gemini_model", model |-> model, raises |-> FALSE,
                            returned |-> "invalid", set_provider |-> reply.set_provider]
          ELSE /\ UpdateSetting("gemini_model", full_model(model), writable)
               /\ reply' = [tool |-> "set_gemini_model", model |-> model, raises |-> FALSE,
                            returned |-> IF UpdateSucceeds("gemini_model") THEN "set"
                                         ELSE "failed",
                            set_provider |-> reply.set_provider]
    /\ UNCHANGED SettingsFrame

\* the tool get_voice_settings(): with gemini as provider it reads
\* settings.gemini_model, which VoiceSettings does not have
CallGetVoiceSettings ==
    /\ reply' =
          IF user_settings.tts_provider = "gemini" /\ "gemini_model" \notin DOMAIN user_settings
          THEN [tool |-> "get_voice_settings", raises |-> TRUE,
                set_provider |-> reply.set_provider]
          ELSE [tool |-> "get_voice_settings", raises |-> FALSE,
                returned |-> Display(user_settings), set_provider |-> reply.set_provider]
    /\ UNCHANGED << SettingsFrame, user_settings, persisted, environ >>

\* get_tts_config() with no argument: a new VoiceSettingsManager loads the
\* record from the file
CallGetTtsConfig ==
    /\ \E kokoro_available \in BOOLEAN :
          LET answer == get_tts_config(Null, Null, Null, Null, LoadFile(persisted), config,
                                       kokoro_available)
          IN  /\ reply' = [tool |-> "get_tts_config", raises |-> answer.raises,
                           returned |-> IF answer.raises THEN Null
                                        ELSE answer.value.provider,
                           set_provider |-> reply.set_provider]
              /\ persisted' = FileAfterLoad(persisted, writable)
    /\ UNCHANGED << SettingsFrame, user_settings, environ >>

\* reset_voice_settings(): the file is deleted, the cached record dropped,
\* load_settings creates and saves the defaults and they are applied; an
\* exception (here of unlink) gives the failure message
CallResetVoiceSettings ==
    /\ \E unlinked \in BOOLEAN :
          IF persisted # NoFile /\ ~unlinked
          THEN /\ UNCHANGED << user_settings, persisted, environ >>
               /\ reply' = [tool |-> "reset_voice_settings", raises |-> FALSE,
                            returned |-> "failed", set_provider |-> reply.set_provider]
          ELSE /\ user_settings' = LoadFile(NoFile)
               /\ persisted' = FileAfterLoad(NoFile, writable)
               /\ environ' = apply_to_environment(environ, user_settings')
               /\ reply' = [tool |-> "reset_voice_settings", raises |-> FALSE,
                            returned |-> "reset", set_provider |-> Null]
    /\ UNCHANGED SettingsFrame

\* the records the manager works on: the record in memory, the file and the
\* environment
Manager == [settings |-> user_settings, file |-> persisted, env |-> environ]

\* update_setting(key, value) as a function of those three
Updated(manager, key, value, written) ==
    IF key \notin DOMAIN manager.settings
    THEN manager
    ELSE LET settings == Stamp(update_setting(manager.settings, key, value))
         IN  [settings |-> settings,
              file |-> IF written THEN settings ELSE manager.file,
              env |-> apply_to_environment(manager.env, settings)]

\* the update_setting calls of a quick setup, one after the other
RECURSIVE UpdateAll(_, _, _)
UpdateAll(manager, updates, written) ==
    IF updates = << >>
    THEN manager
    ELSE UpdateAll(Updated(manager, Head(updates)[1], Head(updates)[2], written),
                   Tail(updates), written)

\* the settings each quick_setup_* tool names
QuickSetups ==
    [local |-> << << "tts_provider", "kokoro" >>, << "tts_voice", "af_sky" >>,
                  << "stt_provider", "local" >>, << "auto_start_kokoro", TRUE >>,
                  << "prefer_local", TRUE >> >>,
     cloud |-> << << "tts_provider", "openai" >>, << "tts_voice", "nova" >>,
                  << "stt_provider", "openai" >>, << "allow_emotions", TRUE >>,
                  << "prefer_local", FALSE >> >>,
     hybrid |-> << << "tts_provider", "openai" >>, << "tts_voice", "nova" >>,
                   << "stt_provider", "local" >>, << "allow_emotions", TRUE >>,
                   << "prefer_local", TRUE >> >>,
     gemini |-> << << "tts_provider", "gemini" >>, << "tts_voice", "Zephyr" >>,
                   << "gemini_model", "gemini-2.5-flash-preview-tts" >>,
                   << "stt_provider", "local" >>, << "prefer_local", TRUE >> >>]

\* the tools quick_setup_local, quick_setup_cloud, quick_setup_hybrid and
\* quick_setup_gemini: the answers of update_setting are not looked at
CallQuickSetup ==
    /\ \E setup \in DOMAIN QuickSetups :
          LET after == UpdateAll(Manager, QuickSetups[setup], writable)
          IN  /\ user_settings' = after.settings
              /\ persisted' = after.file
              /\ environ' = after.env
              /\ reply' = [tool |-> "quick_setup", setup |-> setup, raises |-> FALSE,
                           returned |-> "configured", set_provider |-> reply.set_provider]
    /\ UNCHANGED SettingsFrame

NextSettings ==
    \/ CallUpdateSetting
    \/ CallSetTtsProvider
    \/ CallSetGeminiModel
    \/ CallGetVoiceSettings
    \/ CallGetTtsConfig
    \/ CallResetVoiceSettings
    \/ CallQuickSetup

SpecSettings == InitSettings /\ [][NextSettings]_vars

\* C26: after update_setting(key, value) has returned True, get_setting(key)
\* gives value and the file holds value for key; after it has returned False
\* the record, the file and the environment are as they were before.
C26_UpdateThenGet ==
    [][ reply'.tool = "update_setting" =>
          IF reply'.returned
          THEN /\ get_setting(user_settings', reply'.key) = reply'.value
               /\ get_setting(persisted', reply'.key) = reply'.value
          ELSE /\ user_settings' = user_settings
               /\ persisted' = persisted
               /\ environ' = environ ]_vars

\* C27: the environment reflects the record in memory: TTS_BASE_URL is the
\* Kokoro endpoint exactly when tts_provider is kokoro, STT_BASE_URL is the
\* Whisper endpoint exactly when stt_provider is local, and TTS_VOICE and
\* TTS_MODEL are the saved tts_voice and tts_model.
C27_EnvironmentReflectsSettings ==
    /\ environ.TTS_BASE_URL = "http://localhost:8880/v1" <=> user_settings.tts_provider = "kokoro"
    /\ environ.STT_BASE_URL = "http://localhost:2022/v1" <=> user_settings.stt_provider = "local"
    /\ environ.TTS_VOICE = user_settings.tts_voice
    /\ environ.TTS_MODEL = user_settings.tts_model

\* C28: once set_tts_provider(p) has answered with its success message, a
\* get_tts_config() without provider, voice and model returns a config whose
\* provider is p and does not raise.
C28_SavedProviderResolves ==
    (reply.tool = "get_tts_config" /\ reply.set_provider # Null) =>
        /\ ~reply.raises
        /\ reply.returned = reply.set_provider

\* C29: get_voice_settings returns the display of all current settings and
\* does not raise, whatever settings the tools have set.
C29_DisplayNeverRaises ==
    reply.tool = "get_voice_settings" =>
        /\ ~reply.raises
        /\ \A key \in DOMAIN VoiceSettings : reply.returned[key] = user_settings[key]

\* C30: set_gemini_model with flash, pro or a full model name stores the full
\* name and answers with the confirmation; any other argument is rejected
\* and the settings stay as they were.
C30_GeminiModelStored ==
    [][ reply'.tool = "set_gemini_model" =>
          IF reply'.model \in DOMAIN model_mapping \cup model_names
          THEN /\ reply'.returned = "set"
               /\ get_setting(user_settings', "gemini_model") = full_model(reply'.model)
          ELSE /\ reply'.returned = "invalid"
               /\ user_settings' = user_settings
               /\ persisted' = persisted ]_vars

\* C31: after reset_voice_settings has answered with its success message,
\* every setting has its default value, the settings file exists again and
\* holds the defaults, and the environment is the one of the defaults.
C31_ResetRestoresDefaults ==
    (reply.tool = "reset_voice_settings" /\ reply.returned = "reset") =>
        /\ \A key \in DOMAIN VoiceSettings \ {"last_updated"} :
              user_settings[key] = VoiceSettings[key]
        /\ environ = ImportedEnviron
        /\ persisted # NoFile
        /\ \A key \in DOMAIN VoiceSettings \ {"last_updated"} :
              persisted[key] = VoiceSettings[key]

\* C36: after a quick_setup_* tool has answered with its success message,
\* every setting it names holds the value it names.
C36_QuickSetupApplied ==
    (reply.tool = "quick_setup" /\ reply.returned = "configured") =>
        \A i \in DOMAIN QuickSetups[reply.setup] :
            get_setting(user_settings, QuickSetups[reply.setup][i][1])
                = QuickSetups[reply.setup][i][2]

C33_CueFailureSwallowed ==
    [][ \A t \in Turns :
          /\ (pc[t] = "cue_listening" /\ pc'[t] # "cue_listening") =>
                (pc'[t] = "record" /\ result'[t] = NoResult)
          /\ (pc[t] = "record" /\ pc'[t] # "record") => pc'[t] = "cue_finished"
          /\ (pc[t] = "cue_finished" /\ pc'[t] # "cue_finished") =>
                IF audio_data[t] = 0
                THEN result'[t] = Result("error_record")
                ELSE pc'[t] = "stt" /\ result'[t] = NoResult ]_vars

\* both cues of a turn failed and the turn is at the transcription
C33_Witness ==
    \E t \in Turns : pc[t] = "stt" /\ cue_failed[t] = {"listening", "finished"}

\* C39: whatever the interleaving of the converse calls, the body of
\* startup_initialization runs at most once, at most one Kokoro process is
\* spawned and registered, and a call that finds the flag set goes straight
\* on to the turn without running any of the body.
C39_StartupOnce ==
    [][ /\ startup_runs'.body <= 1
        /\ startup_runs'.popen <= 1
        /\ Cardinality(service_processes') <= 1
        /\ \A t \in Turns :
              (pc[t] = "idle" /\ pc'[t] # "idle" /\ startup_initialized) =>
                  /\ pc'[t] = "entry"
                  /\ startup_runs' = startup_runs
                  /\ service_processes' = service_processes ]_vars

\* one call is inside the body, waiting after the spawn, while another call
\* has already returned from startup_initialization
C39_Witness ==
    \E t, u \in Turns :
        /\ pc[t] = "startup_sleep"
        /\ pc[u] = "entry"
        /\ startup_runs = [body |-> 1, popen |-> 1]
        /\ service_processes = {"kokoro"}

\* C34: a listening call decides its transport before it asks for the device
\* lock; a call that waits for the room probe or for the room transport has
\* run no device step and does not hold or wait for the lock; the room
\* transport returns the room's answer with no local step; 'auto' goes to
\* the room when the probe succeeds and to the locked local section when it
\* does not; an unknown transport returns 'Unknown transport' with no step.
C34_RoomTurnBypassesDevice ==
    [][ \A t \in Turns :
          /\ pc'[t] \in {"probe", "livekit"} =>
                /\ wait_for_response'[t]
                /\ phases'[t] = << >>
                /\ \A i \in DOMAIN audio_operation_lock'.waiters :
                      audio_operation_lock'.waiters[i] # t
          /\ result'[t].kind = "livekit" => phases'[t] = <<"room", "return">>
          /\ result'[t].kind = "unknown_transport" => phases'[t] = <<"return">>
          /\ (pc[t] = "probe" /\ pc'[t] # "probe") =>
                \/ pc'[t] = "livekit" /\ transport'[t] = "livekit"
                \/ pc'[t] = "acquire" /\ transport'[t] = "local"
          /\ (wait_for_response'[t] /\ pc'[t] \in {"acquire", "wait_lock", "resolve"}) =>
                transport'[t] = "local" ]_vars

\* a call went through the room transport and returned while another call
\* held the device lock and was recording
C34_Witness ==
    \E t, u \in Turns :
        /\ pc[t] = "returned" /\ result[t].kind = "livekit"
        /\ pc[u] = "record"
        /\ audio_operation_lock.locked

\* C37: a recognition that fails after the WAV file is written ends the turn
\* like one that returned no text: 'No speech detected' with the record and
\* stt timings, not an Error result.
C37_RecognitionFailureIsNoSpeech ==
    \A t \in Turns :
        heard[t].outcome = "stt_error" =>
            /\ pc[t] = "returned"
            /\ ~raised[t]
            /\ result[t] = FormatResult(speech_to_text("text", << >>).value, result[t].timing)
            /\ result[t].kind = "no_speech"
            /\ {"record", "stt"} \subseteq result[t].timing

\* a turn whose recognition call failed has returned
C37_Witness ==
    \E t \in Turns :
        /\ heard[t].outcome = "stt_error"
        /\ pc[t] = "returned"
        /\ audio_data[t] > 0

\* C38: after a device error during capture, also one that comes after
\* chunks were appended, record_audio returns an empty array, the turn ends
\* with 'Could not record audio' and nothing is handed to speech_to_text.
C38_DeviceErrorDropsFrames ==
    cap.stop = "error" =>
        /\ cap.state = "done"
        /\ cap.buffer = 0
        /\ \A t \in Turns :
              /\ pc[t] # "stt"
              /\ heard[t] = NotHeard
              /\ audio_data[t] \in {-1, 0}
              /\ pc[t] = "returned" =>
                    /\ result[t] = Result("error_record")
                    /\ "stt" \notin Steps(t)

\* the device failed after chunks had been appended and the turn has returned
C38_Witness ==
    /\ cap.stop = "error"
    /\ cap.total_recorded > 0
    /\ \E t \in Turns : pc[t] = "returned" /\ result[t].kind = "error_record"

-----------------------------------------------------------------------------
(* speech_to_text: the temporary files of a call *)

InitStt ==
    /\ pc = [t \in Turns |-> "idle"]
    /\ cue_failed = [t \in Turns |-> {}]
    /\ wait_for_response = [t \in Turns |-> FALSE]
    /\ transport = [t \in Turns |-> "auto"]
    /\ listen_duration = [t \in Turns |-> 0]
    /\ result = [t \in Turns |-> NoResult]
    /\ raised = [t \in Turns |-> FALSE]
    /\ phases = [t \in Turns |-> << >>]
    /\ timings = [t \in Turns |-> {}]
    /\ audio_data = [t \in Turns |-> -1]
    /\ tts_success = [t \in Turns |-> "none"]
    /\ heard = [t \in Turns |-> NotHeard]
    /\ audio_operation_lock = LockInit
    /\ startup_initialized = FALSE
    /\ service_processes = {}
    /\ startup_runs = [body |-> 0, popen |-> 0]
    /\ auto_start_kokoro = FALSE
    /\ cap = NoSession
    /\ user_settings = FirstSettings
    /\ environ = ImportedEnviron
    /\ config = DefaultConfig
    /\ resolution = NoResolution
    /\ ToolInit

SttFrame ==
    << pc, cue_failed, wait_for_response, transport, listen_duration, result, raised, phases, timings,
       audio_data, tts_success, heard, audio_operation_lock, startup_initialized,
       service_processes, startup_runs, auto_start_kokoro, cap, user_settings, environ,
       config, resolution, probe, synth, wav, persisted, reply, writable >>

\* the finally clause removes a file only after a recognition that returned
RemoveOnReturn(call, name, file, unlinked) ==
    IF call.outcome \in {"text", "empty"} /\ name # Null /\ file \in call.files
    THEN IF unlinked THEN [call EXCEPT !.files = @ \ {file}]
         ELSE [call EXCEPT !.unlink_failed = @ \cup {file}]
    ELSE call

\* if name and os.path.exists(name): os.unlink(name), and an exception of
\* os.unlink is logged only
Remove(call, name, file, unlinked) ==
    IF name # Null /\ file \in call.files
    THEN IF unlinked THEN [call EXCEPT !.files = @ \ {file}]
         ELSE [call EXCEPT !.unlink_failed = @ \cup {file}]
    ELSE call

\* control reaches the finally clause: by a return, or by an exception that
\* no except clause of speech_to_text takes
Finally(call, outcome, text) ==
    [call EXCEPT !.state = "unlink_wav", !.left_at = call.state, !.outcome = outcome,
                 !.text = text]

\* speech_to_text(audio_data, save_audio, audio_dir) is entered
StartTranscription ==
    /\ stt_call.state = "idle"
    /\ \E debug \in BOOLEAN, save_audio \in BOOLEAN :
          stt_call' = [state |-> "create_wav", debug |-> debug, save_audio |-> save_audio,
                       wav_file |-> Null, mp3_file |-> Null, files |-> {},
                       unlink_failed |-> {}, left_at |-> "none", outcome |-> "none", text |-> << >>]
    /\ UNCHANGED SttFrame

\* NamedTemporaryFile(suffix='.wav', delete=False) creates the file, or raises
CreateWav ==
    /\ stt_call.state = "create_wav"
    /\ \E created \in BOOLEAN :
          stt_call' = IF created
                      THEN [stt_call EXCEPT !.state = "write_wav", !.wav_file = "wav",
                                            !.files = @ \cup {"wav"}]
                      ELSE Finally(stt_call, "raise", << >>)
    /\ UNCHANGED SttFrame

\* write(wav_file, SAMPLE_RATE, audio_data): outside the inner try, so a
\* failure leaves speech_to_text as an exception
WriteWav ==
    /\ stt_call.state = "write_wav"
    /\ \E written \in BOOLEAN :
          stt_call' = IF written
                      THEN [stt_call EXCEPT !.state =
                               IF stt_call.debug \/ stt_call.save_audio THEN "copies"
                               ELSE "from_wav"]
                      ELSE Finally(stt_call, "raise", << >>)
    /\ UNCHANGED SttFrame

\* the debug copy and the saved copy: a failure of either is logged only
SaveCopies ==
    /\ stt_call.state = "copies"
    /\ \E saved \in BOOLEAN : stt_call' = [stt_call EXCEPT !.state = "from_wav"]
    /\ UNCHANGED SttFrame

\* AudioSegment.from_wav(wav_file)
FromWav ==
    /\ stt_call.state = "from_wav"
    /\ \E loaded \in BOOLEAN :
          stt_call' = IF loaded THEN [stt_call EXCEPT !.state = "create_mp3"]
                      ELSE Finally(stt_call, "failed", << >>)
    /\ UNCHANGED SttFrame

\* NamedTemporaryFile(suffix='.mp3', delete=False)
CreateMp3 ==
    /\ stt_call.state = "create_mp3"
    /\ \E created \in BOOLEAN :
          stt_call' = IF created
                      THEN [stt_call EXCEPT !.state = "export", !.mp3_file = "mp3",
                                            !.files = @ \cup {"mp3"}]
                      ELSE Finally(stt_call, "failed", << >>)
    /\ UNCHANGED SttFrame

\* audio.export(mp3_file, format="mp3", bitrate="64k")
Export ==
    /\ stt_call.state = "export"
    /\ \E exported \in BOOLEAN :
          stt_call' = IF exported THEN [stt_call EXCEPT !.state = "upload"]
                      ELSE Finally(stt_call, "failed", << >>)
    /\ UNCHANGED SttFrame

\* the recognition request: it fails, or answers with a text that is stripped
Transcribe ==
    /\ stt_call.state = "upload"
    /\ \E outcome \in {"stt_error", "text"}, transcription \in Transcriptions :
          LET r == speech_to_text(outcome, transcription)
          IN  /\ outcome # "text" => transcription = << >>
              /\ stt_call' = IF outcome = "stt_error" THEN Finally(stt_call, "failed", << >>)
                             ELSE IF r.value.some THEN Finally(stt_call, "text", r.value.text)
                             ELSE Finally(stt_call, "empty", << >>)
    /\ UNCHANGED SttFrame

\* finally: the WAV file is removed if it was created and still exists
UnlinkWav ==
    /\ stt_call.state = "unlink_wav"
    /\ \E unlinked \in BOOLEAN :
          stt_call' = [Remove(stt_call, stt_call.wav_file, "wav", unlinked)
                          EXCEPT !.state = "unlink_mp3"]
    /\ UNCHANGED SttFrame

\* ... and the MP3 file; then the call returns or the exception goes on
UnlinkMp3 ==
    /\ stt_call.state = "unlink_mp3"
    /\ \E unlinked \in BOOLEAN :
          stt_call' = [Remove(stt_call, stt_call.mp3_file, "mp3", unlinked)
                          EXCEPT !.state = "done"]
    /\ UNCHANGED SttFrame

NextStt ==
    \/ StartTranscription
    \/ CreateWav
    \/ WriteWav
    \/ SaveCopies
    \/ FromWav
    \/ CreateMp3
    \/ Export
    \/ Transcribe
    \/ UnlinkWav
    \/ UnlinkMp3

SpecStt == InitStt /\ [][NextStt]_vars

\* C35: when speech_to_text is over, with a text, with no text, after a
\* failure of the conversion or of the recognition (or with an exception),
\* neither the temporary WAV file nor the temporary MP3 file exists.
C35_TempFilesRemoved ==
    stt_call.state = "done" => stt_call.files = {}

\* C35, as the code has it: when speech_to_text is over, the only temporary
\* files that still exist are those whose os.unlink failed in the finally
\* clause; every other file the call created is gone.
C35_TempFilesRemovedUnlessUnlinkFails ==
    stt_call.state = "done" =>
        /\ stt_call.files = stt_call.unlink_failed
        /\ stt_call.outcome \in {"text", "empty", "failed", "raise"}

\* the export to MP3 failed after both files had been created, the call has
\* returned None and both files were removed
C35_Witness ==
    /\ stt_call.state = "done"
    /\ stt_call.outcome = "failed"
    /\ stt_call.left_at = "export"
    /\ stt_call.wav_file # Null
    /\ stt_call.mp3_file # Null
    /\ stt_call.files = {}

\* ---------------------------------------------------------------------
\* get_provider_by_voice over the voices of the registry and over other
\* strings: one call at a time, the voice asked and the backend answered
\* are kept in resolution.

\* the voices outside the registry that the calls are made with
OtherVoices ==
    {"", "a", "af", "af_", "af_bella", "am_echo", "bf_emma", "bm_george",
     "xaf_sky", "sky", "Alloy", "NOVA", "zephyr", "Zephyr ", "unknown"}

VoiceStrings ==
    ProviderVoices["kokoro"] \cup ProviderVoices["openai"]
        \cup ProviderVoices["gemini"] \cup OtherVoices

InitVoice ==
    /\ pc = [t \in Turns |-> "idle"]
    /\ cue_failed = [t \in Turns |-> {}]
    /\ wait_for_response = [t \in Turns |-> FALSE]
    /\ transport = [t \in Turns |-> "auto"]
    /\ listen_duration = [t \in Turns |-> 0]
    /\ result = [t \in Turns |-> NoResult]
    /\ raised = [t \in Turns |-> FALSE]
    /\ phases = [t \in Turns |-> << >>]
    /\ timings = [t \in Turns |-> {}]
    /\ audio_data = [t \in Turns |-> -1]
    /\ tts_success = [t \in Turns |-> "none"]
    /\ heard = [t \in Turns |-> NotHeard]
    /\ audio_operation_lock = LockInit
    /\ startup_initialized = FALSE
    /\ service_processes = {}
    /\ startup_runs = [body |-> 0, popen |-> 0]
    /\ auto_start_kokoro = FALSE
    /\ cap = NoSession
    /\ user_settings = FirstSettings
    /\ environ = ImportedEnviron
    /\ config = DefaultConfig
    /\ \E voice \in VoiceStrings :
          resolution = [state |-> "asked", voice |-> voice, provider |-> Null]
    /\ ToolInit

VoiceFrame ==
    << pc, cue_failed, wait_for_response, transport, listen_duration, result, raised, phases, timings,
       audio_data, tts_success, heard, audio_operation_lock, startup_initialized,
       service_processes, startup_runs, auto_start_kokoro, cap, user_settings, environ,
       config, probe, synth, wav, persisted, reply, writable, stt_call >>

\* provider = get_provider_by_voice(voice)
CallGetProviderByVoice ==
    /\ resolution.state = "asked"
    /\ resolution' = [resolution EXCEPT !.state = "answered",
                         !.provider = get_provider_by_voice(resolution.voice)]
    /\ UNCHANGED VoiceFrame

\* the next call, with any voice
AskVoice ==
    /\ resolution.state = "answered"
    /\ \E voice \in VoiceStrings :
          resolution' = [state |-> "asked", voice |-> voice, provider |-> Null]
    /\ UNCHANGED VoiceFrame

NextVoice == CallGetProviderByVoice \/ AskVoice

SpecVoice == InitVoice /\ [][NextVoice]_vars

\* the synthesis backends of the registry
TtsProviders == {p \in DOMAIN PROVIDERS : PROVIDERS[p].type = "tts"}

\* the voice is in the voice list of some synthesis backend of the registry
InRegistry(voice) == \E p \in TtsProviders : voice \in ProviderVoices[p]

\* C40: get_provider_by_voice agrees with the registry: a voice in the voice
\* list of a synthesis backend of the registry gives that backend, every
\* other voice string gives openai, and the result is never None.
C40_VoiceInferenceAgreesWithRegistry ==
    resolution.state = "answered" =>
        /\ \A p \in TtsProviders :
              resolution.voice \in ProviderVoices[p] => resolution.provider = p
        /\ ~InRegistry(resolution.voice) => resolution.provider = "openai"
        /\ resolution.provider # Null

\* C40, as the code has it: a voice in the voice list of a synthesis backend
\* of the registry gives that backend; a voice outside the registry gives
\* kokoro when it starts with af_, am_, bf_ or bm_ and openai otherwise; the
\* result is never None.
C40_VoiceInferenceByPrefixThenList ==
    resolution.state = "answered" =>
        /\ \A p \in TtsProviders :
              resolution.voice \in ProviderVoices[p] => resolution.provider = p
        /\ ~InRegistry(resolution.voice) =>
              resolution.provider =
                  IF \E prefix \in KokoroPrefixes : startswith(resolution.voice, prefix)
                  THEN "kokoro" ELSE "openai"
        /\ resolution.provider \in TtsProviders

\* the Gemini voice Nova, which differs from the OpenAI voice nova by its
\* capital only, was answered with gemini
C40_Witness ==
    /\ resolution.state = "answered"
    /\ resolution.voice = "Nova"
    /\ resolution.provider = "gemini"
====
